---- MODULE Spec2Model ----
(***************************************************************************)
(* A model of gitaly's mutating-operation layer: the gitaly-ruby           *)
(* OperationsService handlers (ruby/lib/gitaly_server/operations_service), *)
(* the three-phase hook protocol that wraps every ref update, the          *)
(* UserMergeBranch apply/abort session and the UserCommitFiles stream.     *)
(*                                                                         *)
(* The handlers are in the source; Gitlab::Git::Repository, its            *)
(* OperationService/HooksService and Utils#bridge_exceptions are vendored  *)
(* code that the handlers call.  Those are modelled from the written       *)
(* specification (sections 4.2 to 4.5 and 5).                              *)
(***************************************************************************)
EXTENDS Integers, Sequences, FiniteSets, TLC

\* ------------------------------------------------------------------ bounds
NumCalls == 2
\* messages a client sends on one UserCommitFiles stream
MaxRequests == 7

Calls == 1..NumCalls

\* ------------------------------------------------------------ repository
BranchRef == "refs/heads/master"
TagRef == "refs/tags/v1"
Refs == {BranchRef, TagRef}

NilOid == "nil"
BaseOid == "base"
\* object ids written by writers outside this service (a push, another node)
ForeignOids == {"x", "y"}
\* The object the mutation engine builds for call c is new: its id is none
\* the ref store holds.  Each call draws from names of its own.
OidPool(c) == {"m" \o ToString(c) \o g : g \in {"a", "b", "c"}}
NewOid(c, store) == CHOOSE o \in OidPool(c) : \A r \in Refs : store[r] # o

\* what a rejecting hook may print
HookOutputs == {"denied", "quota exceeded"}

\* ------------------------------------------------------------- operations
TagOps == {"UserCreateTag", "UserDeleteTag"}
DeleteOps == {"UserDeleteTag", "UserDeleteBranch"}
Ops == {"UserCreateTag", "UserDeleteTag", "UserCreateBranch", "UserDeleteBranch",
        "UserMergeBranch", "UserFFBranch", "UserCherryPick", "UserRevert",
        "UserRebase", "UserSquash", "UserCommitFiles"}

\* the ref an operation updates
TargetRef(op) == IF op \in TagOps THEN TagRef ELSE BranchRef

\* ---------------------------------------------------------------- results
\* a successful call carrying one response message with one outcome field
Reply(field, val) == [kind |-> "reply", field |-> field, val |-> val]
\* an exception leaving the handler's begin/rescue block
Raise(class, message) == [kind |-> "raise", field |-> class, val |-> message]

GrpcCodes == {"InvalidArgument", "FailedPrecondition", "NotFound", "Internal",
              "Unavailable", "Unknown", "Cancelled"}

\* Utils#bridge_exceptions: a GRPC::BadStatus passes through with its code,
\* any other exception fails the call.
BridgeExceptions(r) ==
  IF r.kind = "reply"
  THEN [status |-> "OK", detail |-> "", out |-> <<[field |-> r.field, val |-> r.val]>>]
  ELSE IF r.field \in GrpcCodes
  THEN [status |-> r.field, detail |-> r.val, out |-> <<>>]
  ELSE [status |-> "Unknown", detail |-> r.val, out |-> <<>>]

\* a branch_update_result that drops the update
BranchUpdateResultNil(newrev) == ""

\* branch_update_result: nil stays nil, otherwise the update's newrev
BranchUpdateResult(newrev) == IF newrev = NilOid THEN "" ELSE newrev

\* ------------------------------------------------- handlers (begin/rescue)
\* what the mutation engine hands back to a handler: a value or an exception
Value(v) == [kind |-> "value", field |-> "", val |-> v]

EmptyReply == Reply("", "")

\* a user_create_tag that treats an existing tag like a nil result
UserCreateTagExistsIsEmpty(r) ==
  IF r.kind = "value"
  THEN IF r.val = NilOid THEN EmptyReply ELSE Reply("tag", r.val)
  ELSE CASE r.field = "InvalidRef" -> Raise("FailedPrecondition", r.val)
         [] r.field = "TagExistsError" -> EmptyReply
         [] r.field = "PreReceiveError" -> Reply("pre_receive_error", r.val)
         [] OTHER -> r

UserCreateTag(r) ==
  IF r.kind = "value"
  THEN IF r.val = NilOid THEN EmptyReply ELSE Reply("tag", r.val)
  ELSE CASE r.field = "InvalidRef" -> Raise("FailedPrecondition", r.val)
         [] r.field = "TagExistsError" -> Reply("exists", "true")
         [] r.field = "PreReceiveError" -> Reply("pre_receive_error", r.val)
         [] OTHER -> r

\* a user_delete_tag that rescues every exception into pre_receive_error
UserDeleteTagRescuesAll(r) ==
  IF r.kind = "value" THEN EmptyReply ELSE Reply("pre_receive_error", r.val)

UserDeleteTag(r) ==
  IF r.kind = "value" THEN EmptyReply
  ELSE CASE r.field = "PreReceiveError" -> Reply("pre_receive_error", r.val)
         [] OTHER -> r

\* a user_create_branch without the early return on a nil result
UserCreateBranchNoEarlyReturn(r) ==
  IF r.kind = "value"
  THEN Reply("branch", r.val)
  ELSE CASE r.field \in {"InvalidRef", "CommitError"} -> Raise("FailedPrecondition", r.val)
         [] r.field = "PreReceiveError" -> Reply("pre_receive_error", r.val)
         [] OTHER -> r

UserCreateBranch(r) ==
  IF r.kind = "value"
  THEN IF r.val = NilOid THEN EmptyReply ELSE Reply("branch", r.val)
  ELSE CASE r.field \in {"InvalidRef", "CommitError"} -> Raise("FailedPrecondition", r.val)
         [] r.field = "PreReceiveError" -> Reply("pre_receive_error", r.val)
         [] OTHER -> r

UserDeleteBranch(r) ==
  IF r.kind = "value" THEN EmptyReply
  ELSE CASE r.field = "PreReceiveError" -> Reply("pre_receive_error", r.val)
         [] OTHER -> r

\* a tail that sends the commit id once more as the terminal message
UserMergeBranchRepeatsCommitId(r) ==
  IF r.kind = "value" THEN Reply("commit_id", r.val)
  ELSE r

\* the tail of user_merge_branch: the terminal message, and no rescue at all
UserMergeBranch(r) ==
  IF r.kind = "value" THEN Reply("branch_update", BranchUpdateResult(r.val))
  ELSE r

\* a user_ff_branch with one rescue for CommitError and ArgumentError
UserFFBranchOneRescue(r) ==
  IF r.kind = "value" THEN Reply("branch_update", BranchUpdateResult(r.val))
  ELSE CASE r.field \in {"CommitError", "ArgumentError"} ->
              Raise("FailedPrecondition", r.val)
         [] r.field = "PreReceiveError" -> Reply("pre_receive_error", r.val)
         [] OTHER -> r

UserFFBranch(r) ==
  IF r.kind = "value" THEN Reply("branch_update", BranchUpdateResult(r.val))
  ELSE CASE r.field = "CommitError" -> Raise("FailedPrecondition", r.val)
         [] r.field = "ArgumentError" -> Raise("InvalidArgument", r.val)
         [] r.field = "PreReceiveError" -> Reply("pre_receive_error", r.val)
         [] OTHER -> r

\* a user_cherry_pick without the rescue of CreateTreeError
UserCherryPickNoTreeRescue(r) ==
  IF r.kind = "value" THEN Reply("branch_update", BranchUpdateResult(r.val))
  ELSE CASE r.field = "CommitError" -> Reply("commit_error", r.val)
         [] r.field = "PreReceiveError" -> Reply("pre_receive_error", r.val)
         [] OTHER -> r

\* a user_cherry_pick that reports a tree conflict as a commit error
UserCherryPickOneErrorField(r) ==
  IF r.kind = "value" THEN Reply("branch_update", BranchUpdateResult(r.val))
  ELSE CASE r.field \in {"CreateTreeError", "CommitError"} -> Reply("commit_error", r.val)
         [] r.field = "PreReceiveError" -> Reply("pre_receive_error", r.val)
         [] OTHER -> r

UserCherryPick(r) ==
  IF r.kind = "value" THEN Reply("branch_update", BranchUpdateResult(r.val))
  ELSE CASE r.field = "CreateTreeError" -> Reply("create_tree_error", r.val)
         [] r.field = "CommitError" -> Reply("commit_error", r.val)
         [] r.field = "PreReceiveError" -> Reply("pre_receive_error", r.val)
         [] OTHER -> r

\* a user_revert that answers a finished revert with an empty response
UserRevertNoUpdate(r) ==
  IF r.kind = "value" THEN EmptyReply
  ELSE CASE r.field = "CreateTreeError" -> Reply("create_tree_error", r.val)
         [] r.field = "CommitError" -> Reply("commit_error", r.val)
         [] r.field = "PreReceiveError" -> Reply("pre_receive_error", r.val)
         [] OTHER -> r

UserRevert(r) ==
  IF r.kind = "value" THEN Reply("branch_update", BranchUpdateResult(r.val))
  ELSE CASE r.field = "CreateTreeError" -> Reply("create_tree_error", r.val)
         [] r.field = "CommitError" -> Reply("commit_error", r.val)
         [] r.field = "PreReceiveError" -> Reply("pre_receive_error", r.val)
         [] OTHER -> r

\* a user_rebase that reports a hook rejection as a git error
UserRebaseHookIsGitError(r) ==
  IF r.kind = "value" THEN Reply("rebase_sha", r.val)
  ELSE CASE r.field \in {"PreReceiveError", "GitError"} -> Reply("git_error", r.val)
         [] OTHER -> r

UserRebase(r) ==
  IF r.kind = "value" THEN Reply("rebase_sha", r.val)
  ELSE CASE r.field = "PreReceiveError" -> Reply("pre_receive_error", r.val)
         [] r.field = "GitError" -> Reply("git_error", r.val)
         [] OTHER -> r

\* a user_commit_files that reports an index error as a hook rejection
UserCommitFilesOneError(r) ==
  IF r.kind = "value" THEN Reply("branch_update", BranchUpdateResult(r.val))
  ELSE CASE r.field \in {"IndexError", "PreReceiveError"} ->
              Reply("pre_receive_error", r.val)
         [] OTHER -> r

\* the tail of user_commit_files, after the action plan was assembled
UserCommitFiles(r) ==
  IF r.kind = "value" THEN Reply("branch_update", BranchUpdateResult(r.val))
  ELSE CASE r.field = "IndexError" -> Reply("index_error", r.val)
         [] r.field = "PreReceiveError" -> Reply("pre_receive_error", r.val)
         [] OTHER -> r

\* a user_squash without its rescue
UserSquashNoRescue(r) ==
  IF r.kind = "value" THEN Reply("squash_sha", r.val) ELSE r

UserSquash(r) ==
  IF r.kind = "value" THEN Reply("squash_sha", r.val)
  ELSE CASE r.field = "GitError" -> Reply("git_error", r.val)
         [] OTHER -> r

\* the handler of operation op applied to the engine's result
Handle(op, r) ==
  CASE op = "UserCreateTag" -> UserCreateTag(r)
    [] op = "UserDeleteTag" -> UserDeleteTag(r)
    [] op = "UserCreateBranch" -> UserCreateBranch(r)
    [] op = "UserDeleteBranch" -> UserDeleteBranch(r)
    [] op = "UserMergeBranch" -> UserMergeBranch(r)
    [] op = "UserFFBranch" -> UserFFBranch(r)
    [] op = "UserCherryPick" -> UserCherryPick(r)
    [] op = "UserRevert" -> UserRevert(r)
    [] op = "UserRebase" -> UserRebase(r)
    [] op = "UserCommitFiles" -> UserCommitFiles(r)
    [] op = "UserSquash" -> UserSquash(r)

\* ------------------------------------------------- RefService: the data
\* A branch name is the sequence of its characters.  "(" and "+" are legal in
\* a git ref name, ".." is not, and neither is the empty name.
PlainName == <<"m">>
OtherName == <<"n">>
ParenName == <<"f", "(">>
DotsName == <<"a", ".", ".">>
PlusDotsName == <<"a", "+", ".", ".">>
BranchNames == {PlainName, OtherName, ParenName, DotsName, PlusDotsName, <<>>}

\* git's rule for a ref name, on the characters above
ValidRefName(name) ==
  /\ name # <<>>
  /\ name[1] # "." /\ name[Len(name)] # "."
  /\ \A i \in 1..(Len(name) - 1) : ~(name[i] = "." /\ name[i + 1] = ".")

ValidNames == {n \in BranchNames : ValidRefName(n)}

\* HEAD is a symbolic ref to the default branch
HeadBranch == PlainName
Commits == {"c1", "c2"}
StartPoints == {"", "HEAD", "c2", "nope"}

\* the commit a revision resolves to, NilOid when it does not resolve
RevParse(store, rev) ==
  CASE rev = "HEAD" -> store[HeadBranch]
    [] rev \in Commits -> rev
    [] OTHER -> NilOid

\* Rugged::ReferenceError with the message libgit2 gave
ReferenceError(text, name) == [class |-> "ReferenceError", text |-> text, ref |-> name]

\* repo.rugged.branches.create(name, start_point): the target is resolved
\* first, then the name is checked, then the ref is written unless it exists
RuggedBranchesCreate(store, name, start_point) ==
  LET target == RevParse(store, start_point) IN
  IF target = NilOid THEN ReferenceError("not found", <<>>)
  ELSE IF ~ValidRefName(name) THEN ReferenceError("is not valid", name)
  ELSE IF store[name] # NilOid
  THEN ReferenceError("a reference with that name already exists", name)
  ELSE [class |-> "ok", text |-> target, ref |-> name]

\* The branch name is interpolated into a regular expression unescaped.
\* The pattern compiles unless its parentheses are unbalanced.
RECURSIVE Depth(_, _)
Depth(pat, i) ==
  IF i = 0 THEN 0
  ELSE Depth(pat, i - 1) + (IF pat[i] = "(" THEN 1 ELSE IF pat[i] = ")" THEN -1 ELSE 0)

RegexpCompiles(pat) ==
  /\ Depth(pat, Len(pat)) = 0
  /\ \A i \in 1..Len(pat) : Depth(pat, i) >= 0

\* pat, read as a regular expression over literals, "." and "+", matches the
\* whole of text
RECURSIVE RegexpMatches(_, _)
RegexpMatches(pat, text) ==
  IF pat = <<>> THEN text = <<>>
  ELSE IF pat[1] = "+" THEN RegexpMatches(Tail(pat), text)
  ELSE LET plus == Len(pat) >= 2 /\ pat[2] = "+"
           rest == IF plus THEN Tail(Tail(pat)) ELSE Tail(pat)
       IN /\ text # <<>>
          /\ pat[1] = "." \/ pat[1] = text[1]
          /\ \/ RegexpMatches(rest, Tail(text))
             \/ plus /\ RegexpMatches(pat, Tail(text))

\* the case/when over e.to_s: the first pattern is built from branch_name
\* and matched between the quotes of "'refs/heads/<name>' is not valid"
Status(branch_name, e) ==
  IF ~RegexpCompiles(branch_name) THEN "RegexpError"
  ELSE IF e.text = "is not valid" /\ RegexpMatches(branch_name, e.ref) THEN "ERR_INVALID"
  ELSE IF e.text = "a reference with that name already exists" THEN "ERR_EXISTS"
  ELSE "ERR_INVALID_START_POINT"

NoResponse ==
  [op |-> "none", name |-> <<>>, start_point |-> "", grpc |-> "", status |-> "",
   branch |-> <<>>, target_commit |-> NilOid, raised |-> "", before |-> <<>>]

\* ----------------------------------------------------- the Go server: data
\* a repository message: storage name and relative path; no message at all
NilRepository == [storage_name |-> "nil", relative_path |-> "nil"]
TestRepo == [storage_name |-> "default", relative_path |-> "repo.git"]
Repositories ==
  {NilRepository, TestRepo,
   [storage_name |-> "default", relative_path |-> "made/up/path"],
   [storage_name |-> "fake", relative_path |-> "repo"]}
\* the configured storages, and the paths under them that hold a repository
Storages == {"default"}
GitRepositories == {TestRepo}

OkStatus == [code |-> "OK", message |-> ""]
Errorf(code, message) == [code |-> code, message |-> message]

\* helper.GetPath: the storage is looked up, the path is not
GetPath(repo) ==
  IF repo = NilRepository THEN Errorf("InvalidArgument", "GetPath: empty Repository")
  ELSE IF repo.storage_name \notin Storages
  THEN Errorf("InvalidArgument", "GetStorageByName: no such storage")
  ELSE OkStatus

\* a lookup that tells an unknown storage from nothing else
GetRepoPathStorageNotFound(repo) ==
  IF repo = NilRepository THEN Errorf("InvalidArgument", "GetPath: empty Repository")
  ELSE IF repo \notin GitRepositories
  THEN Errorf("NotFound", "GetRepoPath: not a git repository")
  ELSE OkStatus

\* helper.GetRepoPath: GetPath, and the path must hold a git repository
GetRepoPath(repo) ==
  IF GetPath(repo).code # "OK" THEN GetPath(repo)
  ELSE IF repo \notin GitRepositories
  THEN Errorf("NotFound", "GetRepoPath: not a git repository")
  ELSE OkStatus

NoCall ==
  [rpc |-> "none", repository |-> NilRepository, arg |-> <<>>, up |-> TRUE,
   forwarded |-> <<>>, code |-> "", message |-> "", value |-> <<>>]

\* ------------------------------------------------- PostUploadPack: data
\* how many 'deepen' requests the counter is followed for
MaxDeepen == 2

\* the request data after the first message, in the pieces the command's
\* stdin is read in; a piece either holds a 'deepen' line or it does not
Pieces == {"want", "deepen"}
Bodies == {<<>>} \cup {<<p>> : p \in Pieces} \cup {<<p, q>> : p, q \in Pieces}

\* how cmd.Wait comes back: no error, an exit status, or another failure
WaitResults == {"ok", "exit status", "no exit status"}

NoUploadPack ==
  [pc |-> "idle", repository |-> NilRepository, data |-> "nil", body |-> <<>>,
   fed |-> 0, scan |-> "none", seen |-> FALSE, pwClosed |-> FALSE,
   deepenCh |-> <<>>, started |-> FALSE, wait |-> "", code |-> "", message |-> "",
   deepenCount |-> 0, countBefore |-> 0]

\* ---------------------------------------------------- TCP Service: data
\* the clients that may connect, and what a client sends: bytes, "\n" ending
\* a line
Conns == {"c1", "c2"}
Newline == "\n"
OneLine == <<"a", Newline>>
Scripts == {OneLine, <<"a", Newline, "b", Newline>>}

NoConn ==
  [link |-> "none", script |-> <<>>, sent |-> 0, rcv |-> <<>>,
   pc |-> "none", buf |-> <<>>, buffer |-> <<>>, echoed |-> <<>>]

\* NewService: the channel is open and the wait group counts Serve
NewService ==
  [ch |-> "open", wg |-> 1, listener |-> "none", serve |-> "new", stop |-> "idle",
   conn |-> [k \in Conns |-> NoConn]]

\* ----------------------------------------------- gitaly-ruby main: data
\* the process before main runs: no thread, no trap, the server not running,
\* the parent it was started by still there
NotStarted ==
  [main |-> "start", signal |-> "none", trap |-> FALSE, watcher |-> "none",
   run |-> "none", server |-> "not_started", term |-> FALSE, ppid |-> "original",
   own |-> FALSE]

\* ------------------------------------------------------------------ state
VARIABLES
  refs,      \* the ref store: ref name -> object id, NilOid when absent
  call,      \* per call: operation, position, hook phase, messages, status
  crashed,   \* the server process has crashed
  requests,  \* UserCommitFiles: the messages read from the stream so far
  header,    \* UserCommitFiles: the header of the first message
  actions,   \* UserCommitFiles: the handler's actions array
  cfpc,      \* UserCommitFiles: where the handler is
  multiAction, \* UserCommitFiles: the plans handed to repo.multi_action
  heads,     \* RefService: branch name -> commit, NilOid when absent
  rsp,       \* RefService: the last request, the heads before it, its response
  goCall,    \* the Go server: the last call, what it forwarded, its result
  pack,      \* PostUploadPack step by step: handler, pipe, scanning goroutine
  tcp,       \* the TCP Service: channel, wait group, listener, connections
  rb         \* the gitaly-ruby process: main and its threads, the gRPC server

opVars == <<refs, call, crashed>>
cfVars == <<requests, header, actions, cfpc, multiAction>>
refVars == <<heads, rsp>>
rpcVars == <<opVars, cfVars, refVars, goCall>>
procVars == <<pack, tcp, rb>>
vars == <<refs, call, crashed, requests, header, actions, cfpc, multiAction, heads, rsp,
          goCall, pack, tcp, rb>>

IdleCall ==
  [op |-> "none", pc |-> "idle", hook |-> "NotStarted",
   oldrev |-> NilOid, newrev |-> NilOid,
   rejected |-> "none", hookOut |-> "", postOk |-> TRUE,
   pre |-> 0, upd |-> 0, post |-> 0, writes |-> 0, wrote |-> "",
   recvd |-> 0, apply |-> "unset", out |-> <<>>, status |-> "open", detail |-> "",
   raised |-> "", malformed |-> {}]

\* a bare repository with its default branch; the tag may or may not exist
Init ==
  /\ refs \in {f \in [Refs -> {NilOid, BaseOid}] : f[BranchRef] = BaseOid}
  /\ call = [c \in Calls |-> IdleCall]
  /\ crashed = FALSE
  /\ requests = <<>>
  /\ header = ""
  /\ actions = <<>>
  /\ cfpc = "header"
  /\ multiAction = <<>>
  /\ heads = [n \in ValidNames |-> IF n = HeadBranch THEN "c1" ELSE NilOid]
  /\ rsp = [NoResponse EXCEPT !.before = heads]
  /\ goCall = NoCall
  /\ pack = NoUploadPack
  /\ tcp = NewService
  /\ rb = NotStarted

\* ------------------------------------------------ mutation engine: build
\* the typed errors building the new object(s) of op can raise
BuildErrors(op) ==
  CASE op = "UserCreateTag" -> {"InvalidRef"}
    [] op = "UserCreateBranch" -> {"InvalidRef", "CommitError"}
    [] op = "UserFFBranch" -> {"CommitError", "ArgumentError"}
    [] op \in {"UserCherryPick", "UserRevert"} -> {"CreateTreeError", "CommitError"}
    [] op \in {"UserRebase", "UserSquash"} -> {"GitError"}
    [] op = "UserCommitFiles" -> {"IndexError"}
    [] OTHER -> {}

\* What the engine does with op on call c before any hook runs: it either
\* goes on to the ref update with the object it built ("go"), or hands a
\* value or a typed error straight back to the handler.
Build(op, c, store) ==
  LET cur == store[TargetRef(op)] IN
  CASE op = "UserCreateTag" /\ cur # NilOid -> {Raise("TagExistsError", "tag exists")}
    [] op = "UserCreateBranch" /\ cur # NilOid -> {Value(NilOid)}
    [] op \in DeleteOps /\ cur = NilOid ->
         {Raise("FailedPrecondition", "ref not found: " \o TargetRef(op))}
    [] op \in DeleteOps -> {[kind |-> "go", field |-> "", val |-> NilOid]}
    \* squash folds a range into one commit object and returns its sha:
    \* its interface has no hook outcome and it moves no ref
    [] op = "UserSquash" ->
         {Value(NewOid(c, store))} \cup {Raise(e, e) : e \in BuildErrors(op)}
    [] op = "UserMergeBranch" ->
         {[kind |-> "go", field |-> "", val |-> NewOid(c, store)], Value(NilOid)}
    [] OTHER ->
         {[kind |-> "go", field |-> "", val |-> NewOid(c, store)]}
           \cup {Raise(e, e) : e \in BuildErrors(op)}

\* ------------------------------------------------------- ending a call
\* the handler's result r goes through bridge_exceptions; a reply is the
\* call's last message; raised keeps the class of the exception, if any,
\* that came up inside the handler
Finish(rec, r) ==
  LET b == BridgeExceptions(Handle(rec.op, r)) IN
  [rec EXCEPT !.pc = "done", !.status = b.status, !.detail = b.detail,
              !.out = @ \o b.out,
              !.raised = IF r.kind = "raise" THEN r.field ELSE ""]

Live(c) == ~crashed /\ call[c].pc \notin {"idle", "done"}

\* a handling flow takes a new request once it is done with the last one;
\* everything request-scoped is discarded
MayStart(c) ==
  /\ ~crashed
  /\ call[c].pc \in {"idle", "done"}

\* ------------------------------------------------------ unary operations
\* A unary handler up to the point where the engine either answered or
\* entered the hook chain around its ref update.
\* the request fields that can be missing: the user, the tag or branch
\* name, and for the create operations the target revision or start point
RequestFields(op) ==
  IF op \in {"UserCreateTag", "UserCreateBranch"} THEN {"user", "name", "revision"}
  ELSE IF op \in DeleteOps THEN {"user", "name"}
  ELSE {}

\* the handler's own checks, in the order of the code: the message of the
\* GRPC::InvalidArgument it raises, "" when it raises none
Validate(op, malformed) ==
  CASE op = "UserCreateTag" ->
         IF "user" \in malformed THEN "empty user"
         ELSE IF "name" \in malformed THEN "empty tag name"
         ELSE IF "revision" \in malformed THEN "empty target revision"
         ELSE ""
    [] op = "UserDeleteTag" ->
         IF "user" \in malformed THEN "empty user"
         ELSE IF "name" \in malformed THEN "empty tag name"
         ELSE ""
    [] op = "UserCreateBranch" ->
         IF "revision" \in malformed THEN "empty start_point"
         ELSE IF "user" \in malformed THEN "empty user"
         ELSE ""
    [] OTHER -> ""

\* Gitlab::Git::User.from_gitaly on the request's user
UserFromGitaly(malformed) ==
  IF "user" \in malformed THEN Raise("InvalidArgument", "empty user") ELSE Value("")

\* what the engine answers to the request: an empty ref name is no ref
EngineResults(op, c, store, malformed) ==
  IF "name" \in malformed THEN {Raise("InvalidRef", "invalid ref name")}
  ELSE Build(op, c, store)

CallEngine(c, op, malformed) ==
  LET rec == [IdleCall EXCEPT !.op = op, !.recvd = 1, !.malformed = malformed,
                              !.oldrev = refs[TargetRef(op)]]
      invalid == Validate(op, malformed)
      user == UserFromGitaly(malformed)
  IN IF invalid # ""
     THEN call' = [call EXCEPT ![c] = Finish(rec, Raise("InvalidArgument", invalid))]
     ELSE IF user.kind = "raise"
     THEN call' = [call EXCEPT ![c] = Finish(rec, user)]
     ELSE \E b \in EngineResults(op, c, refs, malformed) :
            call' = [call EXCEPT ![c] =
                       IF b.kind = "go"
                       THEN [rec EXCEPT !.pc = "hooks", !.newrev = b.val]
                       ELSE Finish(rec, b)]

StartUnary(c, op) ==
  /\ MayStart(c)
  /\ op # "UserMergeBranch"
  /\ \E malformed \in SUBSET RequestFields(op) : CallEngine(c, op, malformed)
  /\ UNCHANGED <<refs, crashed, cfVars, refVars, goCall, procVars>>

\* ---------------------------------------------------- UserMergeBranch
\* a merge that goes on to the ref update without waiting for the client
MergeFirstRequestNoWait(c) ==
  /\ MayStart(c)
  /\ call' = [call EXCEPT ![c] =
       [IdleCall EXCEPT !.op = "UserMergeBranch", !.recvd = 1,
                        !.oldrev = refs[BranchRef], !.newrev = NewOid(c, refs),
                        !.out = <<[field |-> "commit_id", val |-> NewOid(c, refs)]>>,
                        !.pc = "hooks"]]
  /\ UNCHANGED <<refs, crashed, cfVars, refVars, goCall, procVars>>

\* session.next, then repository.merge up to its yield: the merge commit
\* exists, the intermediate response is sent, the handler blocks reading
MergeFirstRequest(c) ==
  /\ MayStart(c)
  /\ \E b \in Build("UserMergeBranch", c, refs) :
       LET rec == [IdleCall EXCEPT !.op = "UserMergeBranch", !.recvd = 1,
                                   !.oldrev = refs[BranchRef]] IN
       call' = [call EXCEPT ![c] =
                  IF b.kind = "go"
                  THEN [rec EXCEPT !.pc = "awaitApply", !.newrev = b.val,
                                   !.out = <<[field |-> "commit_id", val |-> b.val]>>]
                  ELSE Finish(rec, b)]
  /\ UNCHANGED <<refs, crashed, cfVars, refVars, goCall, procVars>>

\* a block that reads the second request and never looks at its flag
SecondRequestIgnoresApply(rec, apply) ==
  [rec EXCEPT !.recvd = 2, !.apply = IF apply THEN "true" ELSE "false", !.pc = "hooks"]

\* what the block does with the second request
SecondRequest(rec, apply) ==
  IF apply
  THEN [rec EXCEPT !.recvd = 2, !.apply = "true", !.pc = "hooks"]
  ELSE Finish([rec EXCEPT !.recvd = 2, !.apply = "false"],
              Raise("FailedPrecondition", "merge aborted by client"))

MergeSecondRequest(c, apply) ==
  /\ Live(c)
  /\ call[c].pc = "awaitApply"
  /\ call' = [call EXCEPT ![c] = SecondRequest(call[c], apply)]
  /\ UNCHANGED <<refs, crashed, cfVars, refVars, goCall, procVars>>

\* an end of stream that falls through to the ref update
MergeStreamClosedApplies(c) ==
  /\ Live(c)
  /\ call[c].pc = "awaitApply"
  /\ call' = [call EXCEPT ![c].pc = "hooks"]
  /\ UNCHANGED <<refs, crashed, cfVars, refVars, goCall, procVars>>

\* the client half-closes or cancels instead of sending the second message:
\* session.next raises inside the block
MergeStreamClosed(c) ==
  /\ Live(c)
  /\ call[c].pc = "awaitApply"
  /\ \E e \in {"StopIteration", "Cancelled"} :
       call' = [call EXCEPT ![c] = Finish(call[c], Raise(e, "stream closed"))]
  /\ UNCHANGED <<refs, crashed, cfVars, refVars, goCall, procVars>>

\* ------------------------------------------------------------ hook chain
InHooks(c, phase) == Live(c) /\ call[c].pc = "hooks" /\ call[c].hook = phase

\* a hook that exits non-zero: its output is the PreReceiveError message
Rejected(rec, hook, m) ==
  Finish([rec EXCEPT !.rejected = hook, !.hookOut = m], Raise("PreReceiveError", m))

PreReceive(c) ==
  /\ InHooks(c, "NotStarted")
  /\ LET rec == [call[c] EXCEPT !.hook = "PreReceiveRan", !.pre = @ + 1] IN
     \/ call' = [call EXCEPT ![c] = rec]
     \/ \E m \in HookOutputs : call' = [call EXCEPT ![c] = Rejected(rec, "pre-receive", m)]
  /\ UNCHANGED <<refs, crashed, cfVars, refVars, goCall, procVars>>

\* an engine that swaps the ref once pre-receive passed, skipping update
UpdateSkippedSwap(c) ==
  /\ InHooks(c, "PreReceiveRan")
  /\ refs' = [refs EXCEPT ![TargetRef(call[c].op)] = call[c].newrev]
  /\ call' = [call EXCEPT ![c].hook = "Swapped", ![c].writes = @ + 1,
                           ![c].wrote = call[c].newrev]
  /\ UNCHANGED <<crashed, cfVars, refVars, goCall, procVars>>

Update(c) ==
  /\ InHooks(c, "PreReceiveRan")
  /\ LET rec == [call[c] EXCEPT !.hook = "UpdateRan", !.upd = @ + 1] IN
     \/ call' = [call EXCEPT ![c] = rec]
     \/ \E m \in HookOutputs : call' = [call EXCEPT ![c] = Rejected(rec, "update", m)]
  /\ UNCHANGED <<refs, crashed, cfVars, refVars, goCall, procVars>>

\* a ref update that writes newrev whatever the ref holds by now
SwapOverwrites(c) ==
  /\ InHooks(c, "UpdateRan")
  /\ refs' = [refs EXCEPT ![TargetRef(call[c].op)] = call[c].newrev]
  /\ call' = [call EXCEPT ![c].hook = "Swapped", ![c].writes = @ + 1,
                           ![c].wrote = call[c].newrev]
  /\ UNCHANGED <<crashed, cfVars, refVars, goCall, procVars>>

\* the ref store's compare-and-swap of oldrev -> newrev
CompareAndSwap(store, ref, old, new) ==
  IF store[ref] = old THEN [store EXCEPT ![ref] = new] ELSE store

Swap(c) ==
  /\ InHooks(c, "UpdateRan")
  /\ LET ref == TargetRef(call[c].op) IN
     IF refs[ref] = call[c].oldrev
     THEN /\ refs' = CompareAndSwap(refs, ref, call[c].oldrev, call[c].newrev)
          /\ call' = [call EXCEPT ![c].hook = "Swapped", ![c].writes = @ + 1,
                                   ![c].wrote = refs'[ref]]
     ELSE /\ refs' = refs
          /\ call' = [call EXCEPT ![c] =
                        Finish(call[c], Raise("FailedPrecondition", "ref changed"))]
  /\ UNCHANGED <<crashed, cfVars, refVars, goCall, procVars>>

\* a post-receive failure reported to the caller like a hook rejection
PostReceiveFailureRaises(c) ==
  /\ InHooks(c, "Swapped")
  /\ \E ok \in BOOLEAN :
       LET rec == [call[c] EXCEPT !.hook = "PostReceiveRan", !.post = @ + 1,
                                  !.postOk = ok] IN
       call' = [call EXCEPT ![c] =
                  Finish(rec, IF ok THEN Value(rec.newrev)
                              ELSE Raise("PreReceiveError", "post-receive failed"))]
  /\ UNCHANGED <<refs, crashed, cfVars, refVars, goCall, procVars>>

\* post-receive runs after the swap; its exit status is only logged
PostReceive(c) ==
  /\ InHooks(c, "Swapped")
  /\ \E ok \in BOOLEAN :
       call' = [call EXCEPT ![c] =
                  Finish([call[c] EXCEPT !.hook = "PostReceiveRan", !.post = @ + 1,
                                         !.postOk = ok],
                         Value(call[c].newrev))]
  /\ UNCHANGED <<refs, crashed, cfVars, refVars, goCall, procVars>>

\* a crash after which the calls in flight run their hook chain again
CrashRestartsHooks ==
  /\ ~crashed
  /\ \E c \in Calls : call[c].pc = "hooks" /\ call[c].hook # "NotStarted"
  /\ call' = [c \in Calls |->
                IF call[c].pc = "hooks" THEN [call[c] EXCEPT !.hook = "NotStarted"]
                ELSE call[c]]
  /\ UNCHANGED <<refs, crashed, cfVars, refVars, goCall, procVars>>

\* the server process dies; nothing of it runs again
Crash ==
  /\ ~crashed
  /\ \E c \in Calls : call[c].pc \notin {"idle", "done"}
  /\ crashed' = TRUE
  /\ UNCHANGED <<refs, call, cfVars, refVars, goCall, procVars>>

\* a cancellation that undoes the ref update of the call it ends
CancelRollsBack(c) ==
  /\ Live(c)
  /\ call[c].pc = "hooks"
  /\ call' = [call EXCEPT ![c] = Finish(call[c], Raise("Cancelled", "cancelled"))]
  /\ refs' = IF call[c].writes > 0
             THEN [refs EXCEPT ![TargetRef(call[c].op)] = call[c].oldrev]
             ELSE refs
  /\ UNCHANGED <<crashed, cfVars, refVars, goCall, procVars>>

\* the client cancels or disconnects while the engine is in its hook chain:
\* the cancellation is detected between two phases, the call ends there
\* and what the ref store holds by then stays
Cancel(c) ==
  /\ Live(c)
  /\ call[c].pc = "hooks"
  /\ call' = [call EXCEPT ![c] = Finish(call[c], Raise("Cancelled", "cancelled"))]
  /\ UNCHANGED <<refs, crashed, cfVars, refVars, goCall, procVars>>

\* a writer outside this service moves or deletes a ref
ForeignUpdate(r) ==
  /\ ~crashed
  /\ \E o \in (ForeignOids \cup {NilOid}) \ {refs[r]} : refs' = [refs EXCEPT ![r] = o]
  /\ UNCHANGED <<call, crashed, cfVars, refVars, goCall, procVars>>

\* ------------------------------------------------------- specifications
\* Spec: one handling flow serving requests of every kind, one after the
\* other, while writers outside the service update the same refs.
Solo == CHOOSE c \in Calls : \A d \in Calls : c <= d

Next ==
  \/ \E op \in Ops : StartUnary(Solo, op)
  \/ MergeFirstRequest(Solo)
  \/ \E apply \in BOOLEAN : MergeSecondRequest(Solo, apply)
  \/ MergeStreamClosed(Solo)
  \/ PreReceive(Solo)
  \/ Update(Solo)
  \/ Swap(Solo)
  \/ PostReceive(Solo)
  \/ Cancel(Solo)
  \/ \E r \in Refs : ForeignUpdate(r)
  \/ Crash

Spec == Init /\ [][Next]_vars

\* SpecMerge: NumCalls UserMergeBranch sessions in flight at once on the
\* same branch, each stream served once.  Sessions are interchangeable, so
\* they are numbered in the order their first request arrives.
NewSession(c) ==
  /\ call[c].pc = "idle"
  /\ \A d \in Calls : d < c => call[d].pc # "idle"

NextMerge ==
  \/ \E c \in Calls : NewSession(c) /\ MergeFirstRequest(c)
  \/ \E c \in Calls, apply \in BOOLEAN : MergeSecondRequest(c, apply)
  \/ \E c \in Calls : MergeStreamClosed(c)
  \/ \E c \in Calls : PreReceive(c)
  \/ \E c \in Calls : Update(c)
  \/ \E c \in Calls : Swap(c)
  \/ \E c \in Calls : PostReceive(c)
  \/ Crash

SpecMerge == Init /\ [][NextMerge]_vars

\* ------------------------------------------------------ UserCommitFiles
\* A stream message is the request header, an action header or a chunk of
\* content (UserCommitFilesRequest: header | action: header | content).
Msg(kind, action, path, prev, b64, content) ==
  [kind |-> kind, action |-> action, file_path |-> path, previous_path |-> prev,
   base64_content |-> b64, content |-> content]

HeaderMsg == Msg("header", "", "", "", FALSE, "")
ActionHeaderMsgs == {Msg("action_header", "CREATE", "a.txt", "", TRUE, ""),
                     Msg("action_header", "MOVE", "b.txt", "a.txt", FALSE, "")}
ContentMsgs == {Msg("content", "", "", "", FALSE, c) : c \in {"x", "yz"}}
Messages == {HeaderMsg} \cup ActionHeaderMsgs \cup ContentMsgs

\* String#downcase on the action names
Downcase(a) ==
  CASE a = "CREATE" -> "create"
    [] a = "CREATE_DIR" -> "create_dir"
    [] a = "UPDATE" -> "update"
    [] a = "MOVE" -> "move"
    [] a = "DELETE" -> "delete"
    [] OTHER -> a

CommitFilesActionFromGitalyRequest(h) ==
  [action |-> Downcase(h.action),
   file_path |-> h.file_path,
   previous_path |-> h.previous_path,
   encoding |-> IF h.base64_content THEN "base64" ELSE "",
   content |-> ""]

\* a handler that appends every chunk to the first action
AppendContentFirst(acts, content) == [acts EXCEPT ![1].content = @ \o content]

\* actions.last[:content] << action.content
AppendContent(acts, content) == [acts EXCEPT ![Len(acts)].content = @ \o content]

\* header = request_enum.next.header: the first message, whatever it is
CommitFilesHeader(m) ==
  /\ cfpc = "header"
  /\ requests' = Append(requests, m)
  /\ header' = IF m.kind = "header" THEN "header" ELSE "nil"
  /\ cfpc' = "loop"
  /\ UNCHANGED <<actions, multiAction, opVars, refVars, goCall, procVars>>

\* a loop that drops a chunk no action is waiting for and reads on
CommitFilesActionDropsOrphan(m) ==
  /\ cfpc = "loop"
  /\ Len(requests) < MaxRequests
  /\ requests' = Append(requests, m)
  /\ CASE m.kind = "action_header" ->
            /\ actions' = Append(actions, CommitFilesActionFromGitalyRequest(m))
            /\ cfpc' = cfpc
       [] m.kind = "content" /\ actions # <<>> ->
            /\ actions' = AppendContent(actions, m.content)
            /\ cfpc' = cfpc
       [] m.kind = "content" ->
            /\ actions' = actions
            /\ cfpc' = cfpc
       [] OTHER ->
            /\ actions' = actions
            /\ cfpc' = "failed"
  /\ UNCHANGED <<header, multiAction, opVars, refVars, goCall, procVars>>

\* one turn of the loop: request_enum.next.action, then the if
CommitFilesAction(m) ==
  /\ cfpc = "loop"
  /\ Len(requests) < MaxRequests
  /\ requests' = Append(requests, m)
  /\ CASE m.kind = "action_header" ->
            /\ actions' = Append(actions, CommitFilesActionFromGitalyRequest(m))
            /\ cfpc' = cfpc
       [] m.kind = "content" /\ actions # <<>> ->
            /\ actions' = AppendContent(actions, m.content)
            /\ cfpc' = cfpc
       \* nil.header, or nil[:content]: NoMethodError leaves the handler
       [] OTHER ->
            /\ actions' = actions
            /\ cfpc' = "failed"
  /\ UNCHANGED <<header, multiAction, opVars, refVars, goCall, procVars>>

\* an end of stream that commits the plan whether or not a header was read
CommitFilesEndOfStreamAlways ==
  /\ cfpc \in {"header", "loop"}
  /\ ~crashed
  /\ cfpc' = "assembled"
  /\ multiAction' = Append(multiAction, actions)
  /\ CallEngine(Solo, "UserCommitFiles", {})
  /\ UNCHANGED <<requests, header, actions, refs, crashed, refVars, goCall, procVars>>

\* The stream ends: StopIteration ends the loop and the plan goes to
\* repo.multi_action, once.  Before the first message, or with no header to
\* take the repository from, the exception leaves the handler instead.
CommitFilesEndOfStream ==
  /\ cfpc \in {"header", "loop"}
  /\ ~crashed
  /\ IF cfpc = "loop" /\ header = "header"
     THEN /\ cfpc' = "assembled"
          /\ multiAction' = Append(multiAction, actions)
          /\ CallEngine(Solo, "UserCommitFiles", {})
     ELSE /\ cfpc' = "failed"
          /\ UNCHANGED <<multiAction, call>>
  /\ UNCHANGED <<requests, header, actions, refs, crashed, refVars, goCall, procVars>>

\* the stream breaks (cancelled, connection lost): request_enum.next raises
CommitFilesStreamError ==
  /\ cfpc \in {"header", "loop"}
  /\ cfpc' = "failed"
  /\ UNCHANGED <<requests, header, actions, multiAction, opVars, refVars, goCall, procVars>>

NextCommitFiles ==
  \/ \E m \in Messages : CommitFilesHeader(m)
  \/ \E m \in Messages : CommitFilesAction(m)
  \/ CommitFilesEndOfStream
  \/ CommitFilesStreamError
  \/ PreReceive(Solo)
  \/ Update(Solo)
  \/ Swap(Solo)
  \/ PostReceive(Solo)

SpecCommitFiles == Init /\ [][NextCommitFiles]_vars

\* ------------------------------------------------------------ RefService
Lookup(store, name) == IF name \in DOMAIN store THEN store[name] ELSE NilOid

\* a create_branch that hands an empty start_point to rugged as it is
CreateBranchNoDefault(name, start) ==
  /\ LET store == [n \in BranchNames |-> Lookup(heads, n)]
         r == RuggedBranchesCreate(store, name, start)
         req == [NoResponse EXCEPT !.op = "CreateBranch", !.name = name,
                                   !.start_point = start, !.before = heads]
     IN IF r.class = "ok"
        THEN /\ heads' = [heads EXCEPT ![name] = r.text]
             /\ rsp' = [req EXCEPT !.grpc = "OK", !.status = "OK", !.branch = r.ref,
                                   !.target_commit = r.text]
        ELSE /\ heads' = heads
             /\ LET status == Status(name, r) IN
                rsp' = IF status = "RegexpError"
                       THEN [req EXCEPT !.grpc = "Unknown", !.raised = status]
                       ELSE [req EXCEPT !.grpc = "OK", !.status = status]
  /\ UNCHANGED <<opVars, cfVars, goCall, procVars>>

\* RefService#create_branch
CreateBranch(name, start) ==
  /\ LET start_point == IF start = "" THEN "HEAD" ELSE start
         store == [n \in BranchNames |-> Lookup(heads, n)]
         r == RuggedBranchesCreate(store, name, start_point)
         req == [NoResponse EXCEPT !.op = "CreateBranch", !.name = name,
                                   !.start_point = start, !.before = heads]
     IN IF r.class = "ok"
        THEN /\ heads' = [heads EXCEPT ![name] = r.text]
             /\ rsp' = [req EXCEPT !.grpc = "OK", !.status = "OK", !.branch = r.ref,
                                   !.target_commit = r.text]
        ELSE /\ heads' = heads
             /\ LET status == Status(name, r) IN
                rsp' = IF status = "RegexpError"
                       THEN [req EXCEPT !.grpc = "Unknown", !.raised = status]
                       ELSE [req EXCEPT !.grpc = "OK", !.status = status]
  /\ UNCHANGED <<opVars, cfVars, goCall, procVars>>

\* RefService#delete_branch
DeleteBranch(name) ==
  /\ LET req == [NoResponse EXCEPT !.op = "DeleteBranch", !.name = name,
                                   !.before = heads]
     IN IF name = <<>>
        THEN /\ heads' = heads
             /\ rsp' = [req EXCEPT !.grpc = "InvalidArgument", !.raised = "empty Name"]
        ELSE IF Lookup(heads, name) = NilOid
        THEN /\ heads' = heads
             /\ rsp' = [req EXCEPT !.grpc = "Internal", !.raised = "ReferenceError"]
        ELSE /\ heads' = [heads EXCEPT ![name] = NilOid]
             /\ rsp' = [req EXCEPT !.grpc = "OK"]
  /\ UNCHANGED <<opVars, cfVars, goCall, procVars>>

NextRef ==
  \/ \E name \in BranchNames, start \in StartPoints : CreateBranch(name, start)
  \/ \E name \in BranchNames : DeleteBranch(name)

SpecRef == Init /\ [][NextRef]_vars

\* ---------------------------------------------------------- the Go server
\* rubyserver.SetHeaders: the repository must resolve to a git repository
SetHeaders(repo) == GetRepoPath(repo)

\* rubyserver.SetHeadersWithoutRepoCheck: only the storage is looked up
SetHeadersWithoutRepoCheck(repo) == GetPath(repo)

\* the client of the ruby server, when that server cannot be reached
RubyUnavailable == Errorf("Unavailable", "ruby server unavailable")

\* the fields validateUserSquashRequest looks at, in its order
SquashFields ==
  <<"Repository", "User", "SquashId", "Branch", "StartSha", "EndSha",
    "CommitMessage", "Author">>

\* a UserSquashRequest: its repository and the other fields it leaves empty
SquashRequests ==
  [repository : Repositories,
   empty : SUBSET ({SquashFields[i] : i \in DOMAIN SquashFields} \ {"Repository"})]

EmptyFields(req) ==
  req.empty \cup (IF req.repository = NilRepository THEN {"Repository"} ELSE {})

\* a validation that does not look at the author
ValidateUserSquashRequestNoAuthor(req) ==
  LET empty == EmptyFields(req) \ {"Author"} IN
  IF empty = {} THEN ""
  ELSE LET i == CHOOSE j \in DOMAIN SquashFields :
                  /\ SquashFields[j] \in empty
                  /\ \A k \in 1..(j - 1) : SquashFields[k] \notin empty
       IN "empty " \o SquashFields[i]

\* validateUserSquashRequest: the error text, "" for nil
ValidateUserSquashRequest(req) ==
  IF req.repository = NilRepository THEN "empty Repository"
  ELSE IF "User" \in req.empty THEN "empty User"
  ELSE IF "SquashId" \in req.empty THEN "empty SquashId"
  ELSE IF "Branch" \in req.empty THEN "empty Branch"
  ELSE IF "StartSha" \in req.empty THEN "empty StartSha"
  ELSE IF "EndSha" \in req.empty THEN "empty EndSha"
  ELSE IF "CommitMessage" \in req.empty THEN "empty CommitMessage"
  ELSE IF "Author" \in req.empty THEN "empty Author"
  ELSE ""

\* what the ruby operation service can answer to a forwarded UserSquash
RubySquashResults ==
  {BridgeExceptions(UserSquash(r)) :
     r \in {Value("sha"), Raise("GitError", "squash failed"), Raise("IOError", "io")}}

\* the Go entry point (*server).UserSquash
ServerUserSquash(req, up) ==
  /\ LET c == [NoCall EXCEPT !.rpc = "UserSquash", !.repository = req.repository,
                             !.arg = <<req>>, !.up = up]
         invalid == ValidateUserSquashRequest(req)
         headers == SetHeaders(req.repository)
     IN IF invalid # ""
        THEN goCall' = [c EXCEPT !.code = "InvalidArgument",
                                 !.message = "UserSquash: " \o invalid]
        ELSE IF ~up
        THEN goCall' = [c EXCEPT !.code = RubyUnavailable.code,
                                 !.message = RubyUnavailable.message]
        ELSE IF headers.code # "OK"
        THEN goCall' = [c EXCEPT !.code = headers.code, !.message = headers.message]
        ELSE \E r \in RubySquashResults :
               goCall' = [c EXCEPT !.forwarded = <<req>>, !.code = r.status,
                                   !.message = r.detail, !.value = r.out]
  /\ UNCHANGED <<opVars, cfVars, refVars, procVars>>

\* branch names as FindBranchNames lists them, and what headReference gives
Master == "refs/heads/master"
RefNames == {"refs/heads/foo", Master, "refs/heads/bar"}
NilRef == "nil"
BranchListings ==
  {s \in UNION {[1..n -> RefNames] : n \in 0..Cardinality(RefNames)} :
     \A i, j \in DOMAIN s : i # j => s[i] # s[j]}
HeadReferences == RefNames \cup {NilRef}

Contains(branches, name) == \E i \in DOMAIN branches : branches[i] = name

\* a choice that looks for master before it looks at HEAD
DefaultBranchNameMasterFirst(branches, headRef) ==
  IF Len(branches) = 0 THEN NilRef
  ELSE IF Len(branches) = 1 THEN branches[1]
  ELSE IF Contains(branches, Master) THEN Master
  ELSE IF headRef # NilRef /\ Contains(branches, headRef) THEN headRef
  ELSE branches[1]

\* DefaultBranchName on the listing of FindBranchNames and the headReference
DefaultBranchName(branches, headRef) ==
  IF Len(branches) = 0 THEN NilRef
  ELSE IF Len(branches) = 1 THEN branches[1]
  ELSE IF headRef # NilRef /\ Contains(branches, headRef) THEN headRef
  ELSE IF Contains(branches, Master) THEN Master
  ELSE branches[1]

\* the FindDefaultBranchName rpc: the repository is resolved, then the
\* default branch is chosen among its branches
FindDefaultBranchName(repo, branches, headRef) ==
  /\ LET c == [NoCall EXCEPT !.rpc = "FindDefaultBranchName", !.repository = repo,
                             !.arg = <<branches, headRef>>]
         path == GetRepoPath(repo)
     IN IF path.code # "OK"
        THEN goCall' = [c EXCEPT !.code = path.code, !.message = path.message]
        ELSE goCall' = [c EXCEPT !.code = "OK",
                                 !.value = <<DefaultBranchName(branches, headRef)>>]
  /\ UNCHANGED <<opVars, cfVars, refVars, procVars>>

\* rpcs whose handler resolves the repository of the request and then reads it
ReadRpcs == {"FindAllBranchNames", "FindAllTags", "InfoRefsReceivePack"}
ReadRpc(rpc, repo) ==
  /\ LET c == [NoCall EXCEPT !.rpc = rpc, !.repository = repo]
         path == GetRepoPath(repo)
     IN goCall' = [c EXCEPT !.code = path.code, !.message = path.message]
  /\ UNCHANGED <<opVars, cfVars, refVars, procVars>>

\* the Data of the first message of PostUploadPack, and how git-upload-pack ends
NilData == "nil"
UploadPackData == {NilData, "0032want"}
UploadPackEnds == {"ok", "not started", "exit 1 with deepen", "exit 1"}

ValidateUploadPackRequest(data) ==
  IF data # NilData THEN Errorf("InvalidArgument", "PostUploadPack: non-empty Data")
  ELSE OkStatus

PostUploadPack(repo, data, end) ==
  /\ LET c == [NoCall EXCEPT !.rpc = "PostUploadPack", !.repository = repo,
                             !.arg = <<data>>]
         valid == ValidateUploadPackRequest(data)
         path == GetRepoPath(repo)
     IN IF valid.code # "OK"
        THEN goCall' = [c EXCEPT !.code = valid.code, !.message = valid.message]
        ELSE IF path.code # "OK"
        THEN goCall' = [c EXCEPT !.code = path.code, !.message = path.message]
        ELSE IF end = "not started"
        THEN goCall' = [c EXCEPT !.code = "Unavailable", !.message = "PostUploadPack: cmd"]
        ELSE IF end = "exit 1"
        THEN goCall' = [c EXCEPT !.code = "Unavailable", !.message = "PostUploadPack: exit 1"]
        ELSE goCall' = [c EXCEPT !.code = "OK"]
  /\ UNCHANGED <<opVars, cfVars, refVars, procVars>>

\* write_config of the ruby server: a failure to open the repository is
\* rescued into the error field of the response
RubyWriteConfig(repo) ==
  IF repo \in GitRepositories THEN [error |-> ""]
  ELSE [error |-> "no repository at " \o repo.relative_path]

\* a handler that checks for the repository as the other handlers do
WriteConfigWithRepoCheck(repo, up) ==
  /\ LET c == [NoCall EXCEPT !.rpc = "WriteConfig", !.repository = repo, !.up = up]
         headers == SetHeaders(repo)
     IN IF ~up
        THEN goCall' = [c EXCEPT !.code = RubyUnavailable.code,
                                 !.message = RubyUnavailable.message]
        ELSE IF headers.code # "OK"
        THEN goCall' = [c EXCEPT !.code = headers.code, !.message = headers.message]
        ELSE goCall' = [c EXCEPT !.forwarded = <<repo>>, !.code = "OK",
                                 !.value = <<RubyWriteConfig(repo)>>]
  /\ UNCHANGED <<opVars, cfVars, refVars, procVars>>

\* the WriteConfig rpc of the repository service
WriteConfig(repo, up) ==
  /\ LET c == [NoCall EXCEPT !.rpc = "WriteConfig", !.repository = repo, !.up = up]
         headers == SetHeadersWithoutRepoCheck(repo)
     IN IF ~up
        THEN goCall' = [c EXCEPT !.code = RubyUnavailable.code,
                                 !.message = RubyUnavailable.message]
        ELSE IF headers.code # "OK"
        THEN goCall' = [c EXCEPT !.code = headers.code, !.message = headers.message]
        ELSE goCall' = [c EXCEPT !.forwarded = <<repo>>, !.code = "OK",
                                 !.value = <<RubyWriteConfig(repo)>>]
  /\ UNCHANGED <<opVars, cfVars, refVars, procVars>>

NextGo ==
  \/ \E req \in SquashRequests, up \in BOOLEAN : ServerUserSquash(req, up)
  \/ \E repo \in Repositories, branches \in BranchListings, headRef \in HeadReferences :
       FindDefaultBranchName(repo, branches, headRef)
  \/ \E rpc \in ReadRpcs, repo \in Repositories : ReadRpc(rpc, repo)
  \/ \E repo \in Repositories, data \in UploadPackData, end \in UploadPackEnds :
       PostUploadPack(repo, data, end)
  \/ \E repo \in Repositories, up \in BOOLEAN : WriteConfig(repo, up)

SpecGo == Init /\ [][NextGo]_vars

\* ------------------------------------------- PostUploadPack, step by step
\* The handler of upload_pack.go with the goroutine it starts.  pr/pw is an
\* unbuffered pipe: what the command reads from stdin goes through the
\* TeeReader to scanDeepen, which reads until pw is closed.
UploadPackFree ==
  /\ pack.pc \in {"idle", "returned"}
  /\ pack.scan \in {"none", "done"}
  /\ pack.deepenCount < MaxDeepen

\* return err, with the deferred pw.Close()
UploadPackReturn(u, code, message) ==
  [u EXCEPT !.pc = "returned", !.code = code, !.message = message, !.pwClosed = TRUE]

\* stream.Recv fails: nothing has been set pack yet
UploadPackRecvFails ==
  /\ UploadPackFree
  /\ pack' = [NoUploadPack EXCEPT !.pc = "returned", !.code = "Canceled",
                                !.deepenCount = pack.deepenCount,
                                !.countBefore = pack.deepenCount]
  /\ UNCHANGED <<rpcVars, tcp, rb>>

\* the first message, its validation, the pipe, the channel and the go
\* statement
UploadPackFirstRequest(repo, data, body) ==
  /\ UploadPackFree
  /\ LET u == [NoUploadPack EXCEPT !.repository = repo, !.data = data, !.body = body,
                                   !.deepenCount = pack.deepenCount,
                                   !.countBefore = pack.deepenCount]
         valid == ValidateUploadPackRequest(data)
     IN pack' = IF valid.code # "OK"
              THEN [u EXCEPT !.pc = "returned", !.code = valid.code,
                             !.message = valid.message]
              ELSE [u EXCEPT !.pc = "resolve", !.scan = "scanning"]
  /\ UNCHANGED <<rpcVars, tcp, rb>>

\* helper.GetRepoPath(req.Repository)
UploadPackResolve ==
  /\ pack.pc = "resolve"
  /\ LET path == GetRepoPath(pack.repository)
     IN pack' = IF path.code # "OK" THEN UploadPackReturn(pack, path.code, path.message)
              ELSE [pack EXCEPT !.pc = "start"]
  /\ UNCHANGED <<rpcVars, tcp, rb>>

\* command.New
UploadPackStart(ok) ==
  /\ pack.pc = "start"
  /\ pack' = IF ok THEN [pack EXCEPT !.pc = "wait", !.started = TRUE]
           ELSE UploadPackReturn(pack, "Unavailable", "PostUploadPack: cmd")
  /\ UNCHANGED <<rpcVars, tcp, rb>>

\* the command's stdin takes the next piece of the request: the TeeReader
\* writes it to pw and scanDeepen reads it from pr
UploadPackCopy ==
  /\ pack.pc = "wait"
  /\ pack.scan = "scanning"
  /\ pack.fed < Len(pack.body)
  /\ pack' = [pack EXCEPT !.fed = @ + 1,
                      !.seen = @ \/ pack.body[pack.fed + 1] = "deepen"]
  /\ UNCHANGED <<rpcVars, tcp, rb>>

\* cmd.Wait comes back
UploadPackWait(result) ==
  /\ pack.pc = "wait"
  /\ pack' = IF result = "ok" THEN UploadPackReturn([pack EXCEPT !.wait = result], "OK", "")
           ELSE [pack EXCEPT !.wait = result, !.pc = "close"]
  /\ UNCHANGED <<rpcVars, tcp, rb>>

\* a handler that goes on to the channel with the pipe still open
UploadPackKeepsPipeOpen ==
  /\ pack.pc = "close"
  /\ pack' = IF pack.wait = "exit status" THEN [pack EXCEPT !.pc = "recvDeepen"]
           ELSE UploadPackReturn(pack, "Unavailable", "PostUploadPack: wait")
  /\ UNCHANGED <<rpcVars, tcp, rb>>

\* pw.Close(), then command.ExitStatus(err): && goes on to <-deepenCh only
\* for an exit status
UploadPackClosePipe ==
  /\ pack.pc = "close"
  /\ pack' = IF pack.wait = "exit status"
           THEN [pack EXCEPT !.pwClosed = TRUE, !.pc = "recvDeepen"]
           ELSE UploadPackReturn(pack, "Unavailable", "PostUploadPack: wait")
  /\ UNCHANGED <<rpcVars, tcp, rb>>

\* a handler that takes every exit status for the end of a deepen request
UploadPackRecvDeepenAnyValue ==
  /\ pack.pc = "recvDeepen"
  /\ pack.deepenCh # <<>>
  /\ pack' = UploadPackReturn([pack EXCEPT !.deepenCh = Tail(@), !.deepenCount = @ + 1],
                            "OK", "")
  /\ UNCHANGED <<rpcVars, tcp, rb>>

\* <-deepenCh, deepenCount.Inc() and return nil, or the Unavailable error
UploadPackRecvDeepen ==
  /\ pack.pc = "recvDeepen"
  /\ pack.deepenCh # <<>>
  /\ pack' = IF Head(pack.deepenCh)
           THEN UploadPackReturn([pack EXCEPT !.deepenCh = Tail(@), !.deepenCount = @ + 1],
                                 "OK", "")
           ELSE UploadPackReturn([pack EXCEPT !.deepenCh = Tail(@)],
                                 "Unavailable", "PostUploadPack: wait")
  /\ UNCHANGED <<rpcVars, tcp, rb>>

\* scanDeepen reads the end of the pipe and returns
ScanDeepenReturns ==
  /\ pack.scan = "scanning"
  /\ pack.pwClosed
  /\ pack' = [pack EXCEPT !.scan = "send"]
  /\ UNCHANGED <<rpcVars, tcp, rb>>

\* deepenCh <- result, on a channel with room for one value
ScanDeepenSend ==
  /\ pack.scan = "send"
  /\ Len(pack.deepenCh) < 1
  /\ pack' = [pack EXCEPT !.deepenCh = Append(@, pack.seen), !.scan = "done"]
  /\ UNCHANGED <<rpcVars, tcp, rb>>

UploadPackHandler ==
  \/ UploadPackResolve
  \/ \E ok \in BOOLEAN : UploadPackStart(ok)
  \/ \E result \in WaitResults : UploadPackWait(result)
  \/ UploadPackClosePipe
  \/ UploadPackRecvDeepen

ScanDeepen ==
  \/ ScanDeepenReturns
  \/ ScanDeepenSend

NextUploadPack ==
  \/ UploadPackRecvFails
  \/ \E repo \in Repositories, data \in UploadPackData, body \in Bodies :
       UploadPackFirstRequest(repo, data, body)
  \/ UploadPackCopy
  \/ UploadPackHandler
  \/ ScanDeepen

SpecUploadPack == Init /\ [][NextUploadPack]_vars

\* the handler takes its next step, the command ends, the goroutine runs
FairUploadPack ==
  Init /\ [][NextUploadPack]_vars /\ WF_vars(UploadPackHandler) /\ WF_vars(ScanDeepen)

\* ------------------------------------------------------- the TCP Service
HasNewline(s) == \E i \in 1..Len(s) : s[i] = Newline
FirstNewline(s) == CHOOSE i \in 1..Len(s) : s[i] = Newline /\ \A j \in 1..(i - 1) : s[j] # Newline

\* bufio's ReadBytes('\n') on what the reader holds: through the delimiter
ThroughNewline(s) == SubSeq(s, 1, FirstNewline(s))

\* the process is there: log.Fatalln has not ended it
Alive == tcp.serve # "fatal"

\* Serve: newListener, then the deferred waitGroup.Done is registered
ServeStart(ok) ==
  /\ tcp.serve = "new"
  /\ tcp' = IF ok THEN [tcp EXCEPT !.listener = "open", !.serve = "select"]
            ELSE [tcp EXCEPT !.serve = "fatal"]
  /\ UNCHANGED <<rpcVars, pack, rb>>

\* the select at the top of the accept loop: on a closed channel the
\* listener is closed and Serve returns through its deferred Done
ServeSelect ==
  /\ Alive
  /\ tcp.serve = "select"
  /\ tcp' = IF tcp.ch = "closed"
            THEN [tcp EXCEPT !.listener = "closed", !.serve = "returned", !.wg = @ - 1]
            ELSE [tcp EXCEPT !.serve = "accept"]
  /\ UNCHANGED <<rpcVars, pack, rb>>

\* AcceptTCP runs into the deadline: continue
ServeAcceptTimeout ==
  /\ Alive
  /\ tcp.serve = "accept"
  /\ tcp' = [tcp EXCEPT !.serve = "select"]
  /\ UNCHANGED <<rpcVars, pack, rb>>

\* an accept loop that starts the handler without counting it
ServeAcceptNoAdd(k) ==
  /\ Alive
  /\ tcp.serve = "accept"
  /\ tcp.conn[k].link \in {"up", "closed"}
  /\ tcp.conn[k].pc = "none"
  /\ tcp' = [tcp EXCEPT !.serve = "select", !.conn[k].pc = "select"]
  /\ UNCHANGED <<rpcVars, pack, rb>>

\* AcceptTCP returns the connection of client k: waitGroup.Add(1), go serve
ServeAccept(k) ==
  /\ Alive
  /\ tcp.serve = "accept"
  /\ tcp.conn[k].link \in {"up", "closed"}
  /\ tcp.conn[k].pc = "none"
  /\ tcp' = [tcp EXCEPT !.serve = "select", !.wg = @ + 1, !.conn[k].pc = "select"]
  /\ UNCHANGED <<rpcVars, pack, rb>>

\* AcceptTCP fails otherwise: the error is logged and the loop goes on with
\* the nil connection it got.  conn.RemoteAddr() on it either ends the
\* process (nil dereference) or gives nil, and then Add(1) and go serve
\* start a handler on the nil connection.
ServeAcceptError(k, panics) ==
  /\ tcp.serve = "accept"
  /\ tcp.conn[k].link = "none"
  /\ tcp' = IF panics THEN [tcp EXCEPT !.serve = "fatal"]
            ELSE [tcp EXCEPT !.serve = "select", !.wg = @ + 1,
                             !.conn[k].link = "nil", !.conn[k].pc = "select"]
  /\ UNCHANGED <<rpcVars, pack, rb>>

\* a client connects to the listening socket and will send script
ClientConnect(k, script) ==
  /\ Alive
  /\ tcp.listener = "open"
  /\ tcp.conn[k].link = "none"
  /\ tcp' = [tcp EXCEPT !.conn[k].link = "up", !.conn[k].script = script]
  /\ UNCHANGED <<rpcVars, pack, rb>>

\* the next n bytes of the client arrive at the server's socket
ClientSend(k, n) ==
  /\ Alive
  /\ tcp.conn[k].link = "up"
  /\ tcp.conn[k].pc # "returned"
  /\ tcp.conn[k].sent + n <= Len(tcp.conn[k].script)
  /\ tcp' = [tcp EXCEPT
       !.conn[k].rcv = @ \o SubSeq(tcp.conn[k].script, tcp.conn[k].sent + 1,
                                   tcp.conn[k].sent + n),
       !.conn[k].sent = @ + n]
  /\ UNCHANGED <<rpcVars, pack, rb>>

\* the client closes its end
ClientClose(k) ==
  /\ Alive
  /\ tcp.conn[k].link = "up"
  /\ tcp' = [tcp EXCEPT !.conn[k].link = "closed"]
  /\ UNCHANGED <<rpcVars, pack, rb>>

\* the select at the top of the handler's loop; past it the deadline is set
\* and a new bufio.Reader is made
HandlerSelect(k) ==
  /\ Alive
  /\ tcp.conn[k].pc = "select"
  /\ tcp' = IF tcp.ch = "closed"
            THEN [tcp EXCEPT !.conn[k].pc = "returned", !.wg = @ - 1]
            ELSE [tcp EXCEPT !.conn[k].pc = "read", !.conn[k].buf = <<>>]
  /\ UNCHANGED <<rpcVars, pack, rb>>

\* the reader takes what the socket holds; ReadBytes returns once the
\* delimiter is in, and what the reader read past it stays in the reader
HandlerRead(k) ==
  /\ Alive
  /\ tcp.conn[k].pc = "read"
  /\ tcp.conn[k].rcv # <<>>
  /\ LET all == tcp.conn[k].buf \o tcp.conn[k].rcv
     IN tcp' = IF HasNewline(all)
               THEN [tcp EXCEPT !.conn[k].rcv = <<>>, !.conn[k].buf = <<>>,
                                !.conn[k].buffer = ThroughNewline(all),
                                !.conn[k].pc = "write"]
               ELSE [tcp EXCEPT !.conn[k].rcv = <<>>, !.conn[k].buf = all]
  /\ UNCHANGED <<rpcVars, pack, rb>>

\* a handler whose continue goes back to reading
HandlerTimeoutRetries(k) ==
  /\ Alive
  /\ tcp.conn[k].pc = "read"
  /\ tcp.conn[k].link = "up"
  /\ tcp.conn[k].rcv = <<>>
  /\ tcp' = [tcp EXCEPT !.conn[k].pc = "read", !.conn[k].buf = <<>>]
  /\ UNCHANGED <<rpcVars, pack, rb>>

\* the deadline passes with the line incomplete: continue
HandlerTimeout(k) ==
  /\ Alive
  /\ tcp.conn[k].pc = "read"
  /\ tcp.conn[k].link = "up"
  /\ tcp.conn[k].rcv = <<>>
  /\ tcp' = [tcp EXCEPT !.conn[k].pc = "select", !.conn[k].buf = <<>>]
  /\ UNCHANGED <<rpcVars, pack, rb>>

\* ReadBytes fails otherwise (end of file, nil connection): the error is
\* logged and the handler goes on to write what it has
HandlerReadError(k) ==
  /\ Alive
  /\ tcp.conn[k].pc = "read"
  /\ \/ tcp.conn[k].link = "closed" /\ tcp.conn[k].rcv = <<>>
     \/ tcp.conn[k].link = "nil"
  /\ tcp' = [tcp EXCEPT !.conn[k].buffer = tcp.conn[k].buf, !.conn[k].buf = <<>>,
                        !.conn[k].pc = "write"]
  /\ UNCHANGED <<rpcVars, pack, rb>>

\* conn.Write(buffer): on an error the handler returns through its deferred
\* Done and Close
HandlerWrite(k, ok) ==
  /\ Alive
  /\ tcp.conn[k].pc = "write"
  /\ IF ok THEN tcp.conn[k].link \in {"up", "closed"}
     ELSE tcp.conn[k].link \in {"closed", "nil"}
  /\ tcp' = IF ok
            THEN [tcp EXCEPT !.conn[k].echoed = @ \o tcp.conn[k].buffer,
                             !.conn[k].buffer = <<>>, !.conn[k].pc = "select"]
            ELSE [tcp EXCEPT !.conn[k].buffer = <<>>, !.conn[k].pc = "returned",
                             !.wg = @ - 1]
  /\ UNCHANGED <<rpcVars, pack, rb>>

\* Stop: close(s.ch)
StopClose ==
  /\ Alive
  /\ tcp.stop = "idle"
  /\ tcp' = [tcp EXCEPT !.ch = "closed", !.stop = "waiting"]
  /\ UNCHANGED <<rpcVars, pack, rb>>

\* Stop: waitGroup.Wait() comes back
StopReturn ==
  /\ Alive
  /\ tcp.stop = "waiting"
  /\ tcp.wg = 0
  /\ tcp' = [tcp EXCEPT !.stop = "returned"]
  /\ UNCHANGED <<rpcVars, pack, rb>>

ServeStep ==
  \/ ServeSelect
  \/ ServeAcceptTimeout

HandlerStep(k) ==
  \/ HandlerSelect(k)
  \/ HandlerRead(k)
  \/ HandlerTimeout(k)
  \/ HandlerReadError(k)
  \/ \E ok \in BOOLEAN : HandlerWrite(k, ok)

NextTcp ==
  \/ \E ok \in BOOLEAN : ServeStart(ok)
  \/ ServeStep
  \/ \E k \in Conns : ServeAccept(k)
  \/ \E k \in Conns, panics \in BOOLEAN : ServeAcceptError(k, panics)
  \/ \E k \in Conns : ClientConnect(k, OneLine)
  \/ \E k \in Conns : \E n \in 1..Len(tcp.conn[k].script) : ClientSend(k, n)
  \/ \E k \in Conns : ClientClose(k)
  \/ \E k \in Conns : HandlerStep(k)
  \/ StopClose
  \/ StopReturn

SpecTcp == Init /\ [][NextTcp]_vars

\* SpecEcho: one client and what it sends, byte by byte, on a service that
\* is not being stopped
Echo == "c1"
NextEcho ==
  \/ ServeStart(TRUE)
  \/ ServeStep
  \/ ServeAccept(Echo)
  \/ \E script \in Scripts : ClientConnect(Echo, script)
  \/ \E n \in 1..Len(tcp.conn[Echo].script) : ClientSend(Echo, n)
  \/ ClientClose(Echo)
  \/ HandlerStep(Echo)

SpecEcho == Init /\ [][NextEcho]_vars

\* deadlines pass: the accept loop, every handler and Stop take their steps
FairTcp ==
  /\ Init /\ [][NextTcp]_vars
  /\ WF_vars(ServeStep)
  /\ \A k \in Conns : WF_vars(HandlerStep(k))
  /\ WF_vars(StopReturn)

\* ------------------------------------------------------ gitaly-ruby main
\* main has ended: by its return, by abort, by an exception that left it, or
\* by the default action of TERM; the process and its threads are gone
MainEnded == rb.main \in {"returned", "aborted", "raised", "killed"}

\* Thread#kill on the signal thread
KillSignalThread(r) == [r EXCEPT !.signal = IF @ = "none" THEN @ ELSE "dead"]

\* main up to the signal thread: the arguments are checked, the server is
\* made and the handlers registered, the signal thread sleeps.  The PPID
\* argument is or is not the parent of the process.
MainSetup(argsOk, isParent) ==
  /\ rb.main = "start"
  /\ rb' = IF ~argsOk THEN [rb EXCEPT !.main = "aborted"]
           ELSE [rb EXCEPT !.main = "trap", !.signal = "sleeping",
                           !.ppid = IF isParent THEN "original" ELSE "other"]
  /\ UNCHANGED <<rpcVars, pack, tcp>>

\* trap('TERM') { signal_thread.kill }
MainTrap ==
  /\ rb.main = "trap"
  /\ rb' = [rb EXCEPT !.main = "watch", !.trap = TRUE]
  /\ UNCHANGED <<rpcVars, pack, tcp>>

\* start_parent_watcher(ppid_i, signal_thread)
MainStartWatcher ==
  /\ rb.main = "watch"
  /\ rb' = [rb EXCEPT !.main = "spawn", !.watcher = "running"]
  /\ UNCHANGED <<rpcVars, pack, tcp>>

\* run_thread = Thread.new
MainStartRunThread ==
  /\ rb.main = "spawn"
  /\ rb' = [rb EXCEPT !.main = "join_signal", !.run = "created"]
  /\ UNCHANGED <<rpcVars, pack, tcp>>

\* signal_thread.join comes back
MainJoinSignal ==
  /\ rb.main = "join_signal"
  /\ rb.signal = "dead"
  /\ rb' = [rb EXCEPT !.main = "stop"]
  /\ UNCHANGED <<rpcVars, pack, tcp>>

\* s.stop.  On a server whose run has not begun, GRPC::RpcServer#stop either
\* fails ("Cannot stop before starting"), and the exception leaves main, or
\* leaves the server stopped, and run comes back at once.
MainStop(fails) ==
  /\ rb.main = "stop"
  /\ rb' = IF rb.server = "not_started" /\ fails THEN [rb EXCEPT !.main = "raised"]
           ELSE [rb EXCEPT !.main = "join_run", !.server = "stopped"]
  /\ UNCHANGED <<rpcVars, pack, tcp>>

\* run_thread.join comes back and main returns
MainJoinRun ==
  /\ rb.main = "join_run"
  /\ rb.run = "ended"
  /\ rb' = [rb EXCEPT !.main = "returned"]
  /\ UNCHANGED <<rpcVars, pack, tcp>>

\* the process receives TERM: the trap, once set, kills the signal thread;
\* before that the signal ends the process
Term ==
  /\ ~MainEnded
  /\ rb.main # "start"
  /\ rb' = IF rb.trap THEN KillSignalThread([rb EXCEPT !.term = TRUE])
           ELSE [rb EXCEPT !.term = TRUE, !.main = "killed"]
  /\ UNCHANGED <<rpcVars, pack, tcp>>

\* the parent goes away: Process.ppid is no longer the PPID argument
ParentGone ==
  /\ ~MainEnded
  /\ rb.main # "start"
  /\ rb.ppid = "original"
  /\ rb' = [rb EXCEPT !.ppid = "other"]
  /\ UNCHANGED <<rpcVars, pack, tcp>>

\* one turn of the watcher's loop that finds another parent: kill, break
\* (a turn that finds the same parent sleeps and changes nothing)
WatcherCheck ==
  /\ ~MainEnded
  /\ rb.watcher = "running"
  /\ rb.ppid # "original"
  /\ rb' = KillSignalThread([rb EXCEPT !.watcher = "ended"])
  /\ UNCHANGED <<rpcVars, pack, tcp>>

\* the run thread calls s.run
RunStart ==
  /\ ~MainEnded
  /\ rb.run = "created"
  /\ rb' = IF rb.server = "stopped" THEN [rb EXCEPT !.run = "returned"]
           ELSE [rb EXCEPT !.run = "running", !.server = "running"]
  /\ UNCHANGED <<rpcVars, pack, tcp>>

\* s.run comes back from a server that was stopped
RunReturns ==
  /\ ~MainEnded
  /\ rb.run = "running"
  /\ rb.server = "stopped"
  /\ rb' = [rb EXCEPT !.run = "returned"]
  /\ UNCHANGED <<rpcVars, pack, tcp>>

\* the run loop of the server comes back although nobody stopped it
RunLoopEnds ==
  /\ ~MainEnded
  /\ rb.run = "running"
  /\ rb.server = "running"
  /\ rb' = [rb EXCEPT !.run = "returned", !.server = "stopped", !.own = TRUE]
  /\ UNCHANGED <<rpcVars, pack, tcp>>

\* a run thread that ends after s.run without touching the signal thread
RunEnds ==
  /\ ~MainEnded
  /\ rb.run = "returned"
  /\ rb' = [rb EXCEPT !.run = "ended"]
  /\ UNCHANGED <<rpcVars, pack, tcp>>

\* after s.run: signal_thread.kill, and the run thread ends
RunKill ==
  /\ ~MainEnded
  /\ rb.run = "returned"
  /\ rb' = KillSignalThread([rb EXCEPT !.run = "ended"])
  /\ UNCHANGED <<rpcVars, pack, tcp>>

MainStep ==
  \/ MainTrap
  \/ MainStartWatcher
  \/ MainStartRunThread
  \/ MainJoinSignal
  \/ \E fails \in BOOLEAN : MainStop(fails)
  \/ MainJoinRun

RunThread ==
  \/ RunStart
  \/ RunReturns
  \/ RunKill

NextRuby ==
  \/ \E argsOk, isParent \in BOOLEAN : MainSetup(argsOk, isParent)
  \/ MainStep
  \/ Term
  \/ ParentGone
  \/ WatcherCheck
  \/ RunThread
  \/ RunLoopEnds

SpecRuby == Init /\ [][NextRuby]_vars

\* every thread gets to run
FairRuby ==
  /\ Init /\ [][NextRuby]_vars
  /\ WF_vars(MainStep)
  /\ WF_vars(WatcherCheck)
  /\ WF_vars(RunThread)

\* ================================================================ claims
HasField(out, f) == \E i \in 1..Len(out) : out[i].field = f
IsMerge(c) == call[c].op = "UserMergeBranch"
Done(c) == call[c].pc = "done"
\* the session of c got as far as streaming its provisional commit id
Streamed(c) ==
  /\ IsMerge(c)
  /\ Len(call[c].out) >= 1
  /\ call[c].out[1] = [field |-> "commit_id", val |-> call[c].newrev]

\* C1: a UserMergeBranch session whose second message has apply=false leaks
\* no mutation (the session writes no ref, and the branch never holds its
\* merge commit) and ends with FailedPrecondition 'merge aborted by client',
\* without a branch_update message.
C1_AbortLeavesBranch ==
  \A c \in Calls :
    (IsMerge(c) /\ call[c].apply = "false") =>
      /\ Done(c)
      /\ call[c].status = "FailedPrecondition"
      /\ call[c].detail = "merge aborted by client"
      /\ call[c].writes = 0
      /\ refs[BranchRef] # call[c].newrev
      /\ call[c].out = <<[field |-> "commit_id", val |-> call[c].newrev]>>

\* an aborted session beside one that was applied and moved the branch
C1_Witness ==
  \E c, d \in Calls :
    /\ IsMerge(c) /\ Done(c) /\ call[c].apply = "false"
    /\ IsMerge(d) /\ Done(d) /\ call[d].writes = 1

\* C2 as stated: apply=true and passing hooks always end in a branch_update
\* carrying the streamed commit id, the branch having been set to it.
C2_Original ==
  \A c \in Calls :
    (IsMerge(c) /\ Done(c) /\ call[c].apply = "true" /\ call[c].rejected = "none") =>
      /\ call[c].status = "OK"
      /\ call[c].out = <<[field |-> "commit_id", val |-> call[c].newrev],
                         [field |-> "branch_update", val |-> call[c].newrev]>>
      /\ call[c].wrote = call[c].newrev

\* C2 amended: apply=true, passing hooks and a compare-and-swap that succeeds
\* (nobody moved the branch since the merge commit was computed) end in a
\* branch_update carrying the commit id of the first response, and the
\* session's one ref write set the branch to that commit id.
C2_AppliedMergeSetsBranch ==
  \A c \in Calls :
    (/\ IsMerge(c) /\ Done(c) /\ call[c].apply = "true" /\ call[c].rejected = "none"
     /\ call[c].hook = "PostReceiveRan") =>
      /\ call[c].status = "OK"
      /\ Len(call[c].out) = 2
      /\ call[c].out[1].field = "commit_id"
      /\ call[c].out[Len(call[c].out)] =
           [field |-> "branch_update", val |-> call[c].out[1].val]
      /\ call[c].writes = 1
      /\ call[c].wrote = call[c].out[1].val

\* an applied session whose branch still is at the commit id it streamed
C2_Witness ==
  \E c \in Calls :
    /\ IsMerge(c) /\ Done(c) /\ call[c].apply = "true"
    /\ call[c].hook = "PostReceiveRan"
    /\ refs[BranchRef] = call[c].out[1].val

\* C3: the intermediate response goes out before the ref update: whenever
\* the branch holds a session's merge commit, or the session wrote a ref at
\* all, that session had streamed the commit id and then read a second
\* message with apply=true.
C3_NoUpdateBeforeApply ==
  \A c \in Calls :
    (IsMerge(c) /\ (call[c].writes > 0 \/ refs[BranchRef] = call[c].newrev
                    \/ call[c].hook # "NotStarted" \/ call[c].pc = "hooks")) =>
      /\ Streamed(c)
      /\ call[c].recvd = 2
      /\ call[c].apply = "true"

\* the branch holds the merge commit of a session
C3_Witness ==
  \E c \in Calls : IsMerge(c) /\ Streamed(c) /\ refs[BranchRef] = call[c].newrev

\* C4: a stream that closes after the first message, with the commit id
\* streamed and no second message read, discards the mutation: no hook ran,
\* the session wrote no ref, the branch never holds its merge commit, no
\* branch_update was sent and the call failed.
C4_ClosedStreamDiscards ==
  \A c \in Calls :
    (Streamed(c) /\ Done(c) /\ call[c].recvd = 1) =>
      /\ call[c].status # "OK"
      /\ call[c].status \in GrpcCodes
      /\ ~HasField(call[c].out, "branch_update")
      /\ call[c].writes = 0
      /\ call[c].hook = "NotStarted"
      /\ call[c].pre = 0
      /\ refs[BranchRef] # call[c].newrev

\* a session ended by the close of its stream while another moved the branch
C4_Witness ==
  \E c, d \in Calls :
    /\ Streamed(c) /\ Done(c) /\ call[c].recvd = 1
    /\ refs[BranchRef] = call[d].newrev /\ IsMerge(d)

LastOut(c) == call[c].out[Len(call[c].out)]

\* C5 as stated: every mutation whose pre-receive hook exits non-zero writes
\* no ref and returns a response whose pre_receive_error is the hook's output.
C5_PreReceiveRejection ==
  \A c \in Calls :
    (Done(c) /\ call[c].rejected = "pre-receive") =>
      /\ call[c].writes = 0
      /\ call[c].status = "OK"
      /\ call[c].out # <<>>
      /\ LastOut(c) = [field |-> "pre_receive_error", val |-> call[c].hookOut]

\* C6 as stated: for every operation a pre-receive or update rejection is a
\* pre_receive_error field of a successful response, never a failed call.
C6_RejectionIsOutcomeField ==
  \A c \in Calls :
    (Done(c) /\ call[c].rejected \in {"pre-receive", "update"}) =>
      /\ call[c].status = "OK"
      /\ HasField(call[c].out, "pre_receive_error")

\* C7: the ref swap happens strictly after the update hook passed and before
\* post-receive starts: a call reaches Swapped only from UpdateRan with both
\* hooks run once and none rejecting, that step moves the ref from old-value
\* to new-value, no other step of a handler changes a ref, post-receive
\* starts only from Swapped, and a rejected mutation performed no swap.
C7_SwapBetweenUpdateAndPostReceive ==
  [][\A c \in Calls :
       LET a == call[c]
           b == call'[c]
           ref == TargetRef(a.op)
       IN /\ (a.hook # "Swapped" /\ b.hook = "Swapped") =>
               /\ a.hook = "UpdateRan" /\ a.pre = 1 /\ a.upd = 1 /\ a.post = 0
               /\ a.rejected = "none"
               /\ refs[ref] = a.oldrev /\ refs'[ref] = a.newrev
          /\ (b.post > a.post) => (a.hook = "Swapped" /\ refs' = refs)
          /\ (call' # call /\ refs' # refs) =>
               \E d \in Calls : call[d].hook = "UpdateRan" /\ call'[d].hook = "Swapped"
          /\ (a.rejected # "none") =>
               (a.writes = 0 /\ a.hook \in {"PreReceiveRan", "UpdateRan"})
    ]_vars

\* a call past its swap, and a call rejected by its update hook
C7_Witness ==
  \E c \in Calls :
    /\ call[c].hook = "Swapped" /\ refs[TargetRef(call[c].op)] = call[c].newrev
    /\ call[c].oldrev # call[c].newrev

\* C8: within one mutation each hook phase runs at most once and the ref is
\* written at most once, also across a crash; after a crash a mutation in
\* flight is either wholly applied (its one ref at new-value) or not at all,
\* and no other ref is at its new-value.
C8_HooksAtMostOnce ==
  \A c \in Calls :
    /\ call[c].pre <= 1 /\ call[c].upd <= 1 /\ call[c].post <= 1
    /\ call[c].writes <= 1
    /\ (crashed /\ call[c].pc = "hooks") =>
         /\ (call[c].hook \in {"NotStarted", "PreReceiveRan", "UpdateRan"}) =>
              /\ call[c].writes = 0
              /\ call[c].newrev # NilOid =>
                   refs[TargetRef(call[c].op)] # call[c].newrev
         /\ (call[c].hook = "Swapped") =>
              (call[c].writes = 1 /\ call[c].wrote = call[c].newrev)
         /\ \A r \in Refs \ {TargetRef(call[c].op)} :
              call[c].newrev # NilOid => refs[r] # call[c].newrev

\* the process crashed between the swap and post-receive
C8_Witness ==
  \E c \in Calls :
    /\ crashed /\ call[c].pc = "hooks" /\ call[c].hook = "Swapped"
    /\ call[c].pre = 1 /\ call[c].upd = 1 /\ call[c].post = 0

\* the outcome field of a mutation that went through
SuccessField(op) ==
  CASE op \in {"UserMergeBranch", "UserFFBranch", "UserCherryPick", "UserRevert",
               "UserCommitFiles"} -> "branch_update"
    [] op = "UserCreateTag" -> "tag"
    [] op = "UserCreateBranch" -> "branch"
    [] op = "UserRebase" -> "rebase_sha"
    [] OTHER -> ""

\* C9: post-receive cannot undo or fail a mutation: whatever its exit status,
\* the call succeeds with the same response (the operation's success field
\* carrying new-value, no pre_receive_error), and the call's single ref write
\* stands.
C9_PostReceiveIsInformational ==
  \A c \in Calls :
    (Done(c) /\ call[c].hook = "PostReceiveRan") =>
      /\ call[c].status = "OK"
      /\ call[c].out # <<>>
      /\ LastOut(c) = [field |-> SuccessField(call[c].op),
                       val |-> IF call[c].op \in DeleteOps THEN "" ELSE call[c].newrev]
      /\ ~HasField(call[c].out, "pre_receive_error")
      /\ call[c].writes = 1
      /\ call[c].wrote = call[c].newrev

\* a mutation whose post-receive hook failed, its ref still at new-value
C9_Witness ==
  \E c \in Calls :
    /\ Done(c) /\ call[c].hook = "PostReceiveRan" /\ ~call[c].postOk
    /\ refs[TargetRef(call[c].op)] = call[c].newrev
    /\ call[c].newrev # call[c].oldrev

\* the positions of the action headers among the messages read
ActionHeaderIdx == {i \in 2..Len(requests) : requests[i].kind = "action_header"}
\* the place of the header at position i among the action headers
Rank(i) == Cardinality({j \in ActionHeaderIdx : j <= i})
\* the position of the next action header after i, or the end of the stream
NextHeader(i) ==
  LET later == {j \in ActionHeaderIdx : j > i} IN
  IF later = {} THEN Len(requests) + 1
  ELSE CHOOSE j \in later : \A k \in later : j <= k
\* the contents of the messages lo..hi, in order
RECURSIVE ConcatContent(_, _)
ConcatContent(lo, hi) ==
  IF lo > hi THEN "" ELSE requests[lo].content \o ConcatContent(lo + 1, hi)

\* C10: while the stream is read without failure, the actions array holds one
\* action per action header in arrival order, with the header's fields, and
\* each action's content is the in-order concatenation of exactly the chunks
\* sent between its header and the next header (or the end of the stream).
C10_ChunksGoToLastAction ==
  cfpc \in {"loop", "assembled"} =>
    /\ Len(actions) = Cardinality(ActionHeaderIdx)
    /\ \A i \in ActionHeaderIdx :
         /\ \A j \in (i + 1)..(NextHeader(i) - 1) : requests[j].kind = "content"
         /\ actions[Rank(i)].content = ConcatContent(i + 1, NextHeader(i) - 1)
         /\ actions[Rank(i)].file_path = requests[i].file_path
         /\ actions[Rank(i)].previous_path = requests[i].previous_path
         /\ actions[Rank(i)].encoding = "base64" <=> requests[i].base64_content
         /\ requests[i].action = "CREATE" => actions[Rank(i)].action = "create"
         /\ requests[i].action = "MOVE" => actions[Rank(i)].action = "move"

\* a plan of three actions, each with chunks of its own, read to the end
C10_Witness ==
  /\ cfpc = "assembled"
  /\ Len(actions) = 3
  /\ actions[1].content = "yz"
  /\ actions[2].content = "x"
  /\ actions[3].content = "yz"
  /\ actions[1].file_path # actions[2].file_path

\* C11: in a UserCommitFiles stream nothing is committed and no ref changes
\* while the handler still reads the stream; the end of the stream hands the
\* whole assembled plan to repo.multi_action exactly once; a stream that
\* failed, or ended before a header was received, committed nothing.
C11_CommitOnlyAtEndOfStream ==
  /\ cfpc \in {"header", "loop", "failed"} =>
       /\ multiAction = <<>>
       /\ call[Solo] = IdleCall
       /\ refs[BranchRef] = BaseOid
  /\ Len(multiAction) <= 1
  /\ multiAction # <<>> =>
       /\ cfpc = "assembled"
       /\ header = "header"
       /\ multiAction[1] = actions
       /\ Len(actions) = Cardinality(ActionHeaderIdx)
  /\ refs[BranchRef] # BaseOid =>
       /\ Len(multiAction) = 1
       /\ refs[BranchRef] = call[Solo].newrev

\* a stream of two actions was read to its end and its one commit moved the branch
C11_Witness ==
  /\ cfpc = "assembled"
  /\ Len(multiAction) = 1
  /\ Len(multiAction[1]) = 2
  /\ multiAction[1][2].content = "yz"
  /\ call[Solo].pc = "done"
  /\ refs[BranchRef] # BaseOid

\* the session passed both hooks and came to the ref update
CameToSwap(c) ==
  /\ call[c].apply = "true"
  /\ call[c].rejected = "none"
  /\ call[c].upd = 1
  /\ call[c].hook # "UpdateRan" \/ Done(c)

\* C12: of the sessions that computed their merge on the same observed value
\* of the branch at most one moves the branch; a session whose hooks passed
\* but whose compare-and-swap lost ends as a failed call with status
\* FailedPrecondition and has written nothing; and an update that was made
\* is never overwritten blindly: the branch is at the written commit, or a
\* session that observed that commit as its old value wrote after it.
C12_CompareAndSwapSerializes ==
  /\ \A c, d \in Calls :
       (c # d /\ call[c].writes > 0 /\ call[d].writes > 0)
         => call[c].oldrev # call[d].oldrev
  /\ \A c \in Calls :
       (CameToSwap(c) /\ call[c].writes = 0) =>
         /\ Done(c)
         /\ call[c].status = "FailedPrecondition"
         /\ ~HasField(call[c].out, "branch_update")
         /\ refs[BranchRef] # call[c].newrev
  /\ \A c \in Calls :
       call[c].writes > 0 =>
         /\ call[c].writes = 1
         /\ \/ refs[BranchRef] = call[c].newrev
            \/ \E d \in Calls : call[d].writes > 0 /\ call[d].oldrev = call[c].newrev

\* two sessions merged on the same branch value, both applied and passed
\* their hooks: one moved the branch, the other failed with FailedPrecondition
C12_Witness ==
  \E c, d \in Calls :
    /\ c # d
    /\ call[c].oldrev = call[d].oldrev
    /\ CameToSwap(c) /\ CameToSwap(d)
    /\ Done(c) /\ Done(d)
    /\ call[c].writes = 1 /\ refs[BranchRef] = call[c].newrev
    /\ call[d].writes = 0 /\ call[d].status = "FailedPrecondition"

\* C13: the step on which a cancellation ends a call changes no ref; a call
\* cancelled before its update hook passed has written nothing, ever, and
\* its new value is not in the ref store; a call cancelled after its swap
\* keeps its one write of new-value, and a cancelled call takes no further
\* step.
C13_CancelAbandonsOrStands ==
  [][\A c \in Calls :
       LET a == call[c]
           b == call'[c]
       IN /\ (a.status # "Cancelled" /\ b.status = "Cancelled" /\ a.pc = "hooks") =>
               /\ refs' = refs
               /\ b.pc = "done" /\ b.out = a.out /\ b.writes = a.writes
               /\ a.hook \in {"NotStarted", "PreReceiveRan"} =>
                    /\ b.writes = 0
                    /\ b.newrev # NilOid => \A r \in Refs : refs'[r] # b.newrev
               /\ a.hook = "Swapped" => (b.writes = 1 /\ b.wrote = b.newrev)
          /\ (a.status = "Cancelled" /\ b.status = "Cancelled") =>
               b = a
    ]_vars

\* a call cancelled after its swap, the ref still at its new value
C13_Witness ==
  \E c \in Calls :
    /\ call[c].status = "Cancelled" /\ call[c].hook = "Swapped"
    /\ call[c].oldrev # call[c].newrev
    /\ refs[TargetRef(call[c].op)] = call[c].newrev

\* the exceptions of the engine that stand for a business outcome in every
\* operation that can meet them: hook rejection, ref exists, conflict,
\* index failure, generic git failure
BusinessErrors ==
  {"PreReceiveError", "TagExistsError", "CreateTreeError", "IndexError", "GitError"}

\* the call ended in a business outcome
BusinessOutcome(c) ==
  /\ Done(c)
  /\ \/ call[c].raised \in BusinessErrors
     \/ call[c].rejected # "none"
     \/ call[c].apply = "false"

\* C14: every call that ended in a business outcome (hook rejection, ref
\* exists, conflict, index failure, git failure, client-aborted merge) is a
\* successful call whose last response carries an outcome field.
C14_BusinessOutcomesAreResponses ==
  \A c \in Calls :
    BusinessOutcome(c) =>
      /\ call[c].status = "OK"
      /\ call[c].out # <<>>
      /\ LastOut(c).field \notin {"", "branch_update", "tag", "branch"}

\* the last RefService call was a CreateBranch
Created == rsp.op = "CreateBranch"

\* the commit the last request's start_point resolved to before the call
Resolved ==
  RevParse([n \in BranchNames |-> Lookup(rsp.before, n)],
           IF rsp.start_point = "" THEN "HEAD" ELSE rsp.start_point)

\* C15: a CreateBranch on a branch name that existed before the call (with a
\* start_point that resolves) returns status ERR_EXISTS and leaves every
\* head as it was.
C15_ExistingBranchIsErrExists ==
  (Created /\ Lookup(rsp.before, rsp.name) # NilOid /\ Resolved # NilOid) =>
    /\ rsp.grpc = "OK"
    /\ rsp.status = "ERR_EXISTS"
    /\ heads = rsp.before

\* C16 as stated: whenever the name did not exist and start_point resolved,
\* the response is OK with the Branch at start_point's commit
C16_Original ==
  LET start_point == IF rsp.start_point = "" THEN "HEAD" ELSE rsp.start_point
      target == RevParse([n \in BranchNames |-> Lookup(rsp.before, n)], start_point)
  IN (Created /\ Lookup(rsp.before, rsp.name) = NilOid /\ target # NilOid) =>
       (rsp.status = "OK" /\ rsp.target_commit = target)

\* C16: a CreateBranch with a valid branch name that did not exist before the
\* call and a start_point that resolved (the empty one standing for HEAD)
\* returns status OK and a Branch of that name whose target_commit is the
\* commit start_point resolved to; the new head points at that commit and
\* no other head changed.
C16_CreateBranchPointsAtStartPoint ==
  LET start_point == IF rsp.start_point = "" THEN "HEAD" ELSE rsp.start_point
      target == RevParse([n \in BranchNames |-> Lookup(rsp.before, n)], start_point)
  IN (Created /\ ValidRefName(rsp.name) /\ rsp.before[rsp.name] = NilOid
        /\ target # NilOid) =>
       /\ rsp.grpc = "OK" /\ rsp.status = "OK"
       /\ rsp.branch = rsp.name
       /\ rsp.target_commit = target
       /\ heads = [rsp.before EXCEPT ![rsp.name] = target]

\* a new branch created from HEAD by an empty start_point
C16_Witness ==
  /\ Created /\ rsp.name = OtherName /\ rsp.start_point = ""
  /\ rsp.before[OtherName] = NilOid
  /\ rsp.status = "OK" /\ rsp.target_commit = "c1" /\ heads[OtherName] = "c1"

\* the request of call c had its user and the fields its operation needs
WellFormed(c) == call[c].malformed = {}

\* C17: a well-formed UserDeleteTag on a tag that was absent when the call
\* came in is a failed call with status FailedPrecondition whose message names the
\* missing ref; it sent no response, ran no hook and wrote no ref.
C17_DeleteAbsentTagFailsPrecondition ==
  \A c \in Calls :
    (Done(c) /\ call[c].op = "UserDeleteTag" /\ WellFormed(c)
       /\ call[c].oldrev = NilOid) =>
      /\ call[c].status = "FailedPrecondition"
      /\ call[c].detail = "ref not found: " \o TagRef
      /\ call[c].out = <<>>
      /\ call[c].pre = 0 /\ call[c].writes = 0

\* the tag is absent and a UserDeleteTag for it has ended
C17_Witness ==
  \E c \in Calls :
    /\ Done(c) /\ call[c].op = "UserDeleteTag" /\ call[c].oldrev = NilOid
    /\ WellFormed(c)
    /\ refs[TagRef] = NilOid
    /\ call[c].status = "FailedPrecondition"

\* C18: a well-formed UserCreateTag on a tag that existed when the call came in is a
\* successful call whose one response carries exists = true and neither a
\* tag nor a pre_receive_error; no hook ran and no ref was written.  A
\* response with exists never comes from a call that created a tag or was
\* rejected by a hook.
C18_ExistingTagReportsExists ==
  \A c \in Calls :
    /\ (Done(c) /\ call[c].op = "UserCreateTag" /\ WellFormed(c)
          /\ call[c].oldrev # NilOid) =>
         /\ call[c].status = "OK"
         /\ call[c].out = <<[field |-> "exists", val |-> "true"]>>
         /\ call[c].pre = 0 /\ call[c].writes = 0
    /\ (Done(c) /\ call[c].op = "UserCreateTag" /\ HasField(call[c].out, "exists")) =>
         /\ call[c].oldrev # NilOid /\ WellFormed(c)
         /\ call[c].rejected = "none"
         /\ ~HasField(call[c].out, "tag")
         /\ ~HasField(call[c].out, "pre_receive_error")

\* the tag exists and a UserCreateTag for it was answered with exists
C18_Witness ==
  \E c \in Calls :
    /\ Done(c) /\ call[c].op = "UserCreateTag"
    /\ call[c].oldrev = BaseOid /\ refs[TagRef] = BaseOid
    /\ HasField(call[c].out, "exists")

\* C19: a well-formed UserCreateBranch on a branch that existed when the call came in is
\* a successful call whose one response is empty (no branch, no
\* pre_receive_error); no hook ran and no ref was written.
C19_ExistingBranchIsNoOp ==
  \A c \in Calls :
    (Done(c) /\ call[c].op = "UserCreateBranch" /\ WellFormed(c)
       /\ call[c].oldrev # NilOid) =>
      /\ call[c].status = "OK"
      /\ call[c].out = <<[field |-> "", val |-> ""]>>
      /\ call[c].pre = 0 /\ call[c].writes = 0

\* the branch exists and a UserCreateBranch for it was answered
C19_Witness ==
  \E c \in Calls :
    /\ Done(c) /\ call[c].op = "UserCreateBranch"
    /\ call[c].oldrev = BaseOid /\ refs[BranchRef] = BaseOid
    /\ WellFormed(c)
    /\ call[c].status = "OK" /\ Len(call[c].out) = 1

\* C20: a request with an absent user, an empty tag or branch name or an
\* empty target revision or start point ends as a failed call with status
\* InvalidArgument raised by the handler's validation, before any hook ran
\* or any ref was written.
C20_MalformedInputIsInvalidArgument ==
  \A c \in Calls :
    (Done(c) /\ call[c].malformed # {}) =>
      /\ call[c].status = "InvalidArgument"
      /\ call[c].raised = "InvalidArgument"
      /\ call[c].out = <<>>
      /\ call[c].pre = 0 /\ call[c].writes = 0

\* C21: a UserCherryPick or UserRevert whose tree construction conflicts
\* (the engine raises CreateTreeError) is a successful call whose one
\* response carries a non-empty create_tree_error and nothing else; no hook
\* ran and the branch was not written.
C21_TreeConflictIsCreateTreeError ==
  \A c \in Calls :
    (Done(c) /\ call[c].op \in {"UserCherryPick", "UserRevert"}
       /\ call[c].raised = "CreateTreeError") =>
      /\ call[c].status = "OK"
      /\ Len(call[c].out) = 1
      /\ LastOut(c).field = "create_tree_error" /\ LastOut(c).val # ""
      /\ call[c].pre = 0 /\ call[c].writes = 0

\* a cherry-pick that met a tree conflict while the branch stands where it was
C21_Witness ==
  \E c \in Calls :
    /\ Done(c) /\ call[c].op = "UserCherryPick" /\ call[c].raised = "CreateTreeError"
    /\ HasField(call[c].out, "create_tree_error")
    /\ refs[BranchRef] = call[c].oldrev

\* C22: a UserRebase that met a git-level failure (the engine raises
\* GitError) is a successful call whose one response carries git_error; one
\* rejected by a hook is a successful call whose one response carries
\* pre_receive_error with the hook's output and no git_error; in both the
\* branch was not written.  A rebase that went through answers with
\* rebase_sha, the new commit, and nothing else.
C22_RebaseOutcomes ==
  \A c \in Calls :
    (Done(c) /\ call[c].op = "UserRebase") =>
      /\ call[c].raised = "GitError" =>
           /\ call[c].status = "OK"
           /\ Len(call[c].out) = 1
           /\ LastOut(c).field = "git_error" /\ LastOut(c).val # ""
           /\ call[c].writes = 0
      /\ call[c].rejected # "none" =>
           /\ call[c].status = "OK"
           /\ call[c].out = <<[field |-> "pre_receive_error", val |-> call[c].hookOut]>>
           /\ call[c].writes = 0
      /\ call[c].hook = "PostReceiveRan" =>
           /\ call[c].status = "OK"
           /\ call[c].out = <<[field |-> "rebase_sha", val |-> call[c].newrev]>>
           /\ call[c].newrev # NilOid

\* a rebase rejected by its update hook
C22_Witness ==
  \E c \in Calls :
    /\ Done(c) /\ call[c].op = "UserRebase" /\ call[c].rejected = "update"
    /\ HasField(call[c].out, "pre_receive_error")
    /\ refs[BranchRef] = call[c].oldrev

\* C23: a UserFFBranch that would not be a pure fast-forward (the engine
\* raises CommitError) fails with FailedPrecondition, one with a malformed
\* commit id (ArgumentError) fails with InvalidArgument, both without a
\* response, a hook run or a ref write; one rejected by a hook is a
\* successful call carrying pre_receive_error, the branch not written; one
\* that went through answers with a branch_update holding the commit the
\* branch was moved to.
C23_FFBranchOutcomes ==
  \A c \in Calls :
    (Done(c) /\ call[c].op = "UserFFBranch") =>
      /\ call[c].raised = "CommitError" =>
           /\ call[c].status = "FailedPrecondition" /\ call[c].out = <<>>
           /\ call[c].pre = 0 /\ call[c].writes = 0
      /\ call[c].raised = "ArgumentError" =>
           /\ call[c].status = "InvalidArgument" /\ call[c].out = <<>>
           /\ call[c].pre = 0 /\ call[c].writes = 0
      /\ call[c].rejected # "none" =>
           /\ call[c].status = "OK"
           /\ call[c].out = <<[field |-> "pre_receive_error", val |-> call[c].hookOut]>>
           /\ call[c].writes = 0
      /\ call[c].hook = "PostReceiveRan" =>
           /\ call[c].status = "OK"
           /\ call[c].out = <<[field |-> "branch_update", val |-> call[c].newrev]>>
           /\ call[c].wrote = call[c].newrev /\ call[c].newrev # NilOid

\* a fast-forward refused as not pure, the branch where it was
C23_Witness ==
  \E c \in Calls :
    /\ Done(c) /\ call[c].op = "UserFFBranch" /\ call[c].raised = "CommitError"
    /\ call[c].status = "FailedPrecondition"
    /\ refs[BranchRef] = call[c].oldrev

\* the last call of the Go server was a UserSquash
Squashed == goCall.rpc = "UserSquash"
SquashReq == goCall.arg[1]
\* the first of the eight fields, in the order of the validation, that the
\* request leaves empty; 0 when it leaves none empty
FirstEmpty(req) ==
  LET empty == EmptyFields(req) IN
  IF empty = {} THEN 0
  ELSE CHOOSE j \in DOMAIN SquashFields :
         /\ SquashFields[j] \in empty
         /\ \A k \in 1..(j - 1) : SquashFields[k] \notin empty

\* C24 as stated: with a field empty InvalidArgument and nothing forwarded,
\* with all eight present the request is forwarded
C24_Original ==
  Squashed =>
    IF FirstEmpty(SquashReq) # 0
    THEN goCall.code = "InvalidArgument" /\ goCall.forwarded = <<>>
    ELSE goCall.forwarded = <<SquashReq>>

\* C24: the Go UserSquash returns InvalidArgument "UserSquash: empty <F>",
\* F the first empty field in the order Repository, User, SquashId, Branch,
\* StartSha, EndSha, CommitMessage, Author, and forwards nothing, whenever one
\* of the eight is empty.  With all eight present it forwards the request
\* unchanged and returns the ruby service's answer as it is, provided the
\* ruby server can be reached and the repository resolves; otherwise it
\* returns the error of that step and forwards nothing.
C24_SquashValidatesThenForwards ==
  Squashed =>
    LET i == FirstEmpty(SquashReq) IN
    IF i # 0
    THEN /\ goCall.code = "InvalidArgument"
         /\ goCall.message = "UserSquash: empty " \o SquashFields[i]
         /\ goCall.forwarded = <<>> /\ goCall.value = <<>>
    ELSE IF goCall.up /\ GetRepoPath(goCall.repository).code = "OK"
    THEN /\ goCall.forwarded = <<SquashReq>>
         /\ \E r \in RubySquashResults :
              /\ goCall.code = r.status /\ goCall.message = r.detail
              /\ goCall.value = r.out
    ELSE /\ goCall.forwarded = <<>> /\ goCall.value = <<>>
         /\ goCall.code = IF ~goCall.up THEN "Unavailable"
                           ELSE GetRepoPath(goCall.repository).code
         /\ goCall.code \in {"Unavailable", "InvalidArgument", "NotFound"}

\* a complete request forwarded and answered with git_error, and the same
\* request is what ruby received
C24_Witness ==
  /\ Squashed /\ SquashReq.empty = {} /\ goCall.forwarded = <<SquashReq>>
  /\ goCall.code = "OK" /\ goCall.value = <<[field |-> "git_error", val |-> "squash failed"]>>

\* C25: a UserSquash whose squash failed at the git level (the engine raises
\* GitError) is a successful call whose one response carries a non-empty
\* git_error and no squash_sha; one that succeeded carries a non-empty
\* squash_sha and no git_error; no response carries both.
C25_SquashOutcomes ==
  \A c \in Calls :
    (Done(c) /\ call[c].op = "UserSquash") =>
      /\ call[c].raised = "GitError" =>
           /\ call[c].status = "OK" /\ Len(call[c].out) = 1
           /\ LastOut(c).field = "git_error" /\ LastOut(c).val # ""
      /\ call[c].raised = "" =>
           /\ call[c].status = "OK" /\ Len(call[c].out) = 1
           /\ LastOut(c).field = "squash_sha" /\ LastOut(c).val \notin {"", NilOid}
      /\ ~(HasField(call[c].out, "git_error") /\ HasField(call[c].out, "squash_sha"))

\* a squash that failed at the git level
C25_Witness ==
  \E c \in Calls :
    /\ Done(c) /\ call[c].op = "UserSquash" /\ call[c].raised = "GitError"
    /\ HasField(call[c].out, "git_error")

\* C26: a UserCommitFiles that met an index or tree-construction problem
\* (the engine raises IndexError) is a successful call whose one response
\* carries index_error and no pre_receive_error; one rejected by a hook
\* carries pre_receive_error with the hook's output and no index_error;
\* neither carries a branch_update and in neither the branch was written.
C26_IndexErrorIsNotHookRejection ==
  \A c \in Calls :
    (Done(c) /\ call[c].op = "UserCommitFiles") =>
      /\ call[c].raised = "IndexError" =>
           /\ call[c].status = "OK" /\ Len(call[c].out) = 1
           /\ LastOut(c).field = "index_error" /\ LastOut(c).val # ""
           /\ call[c].pre = 0 /\ call[c].writes = 0
      /\ call[c].rejected # "none" =>
           /\ call[c].status = "OK"
           /\ call[c].out = <<[field |-> "pre_receive_error", val |-> call[c].hookOut]>>
           /\ call[c].writes = 0

\* a commit of files that met an index error, the branch where it was
C26_Witness ==
  \E c \in Calls :
    /\ Done(c) /\ call[c].op = "UserCommitFiles" /\ call[c].raised = "IndexError"
    /\ HasField(call[c].out, "index_error")
    /\ refs[BranchRef] = call[c].oldrev

\* the operations whose response has a branch_update
BranchUpdateOps ==
  {"UserMergeBranch", "UserFFBranch", "UserCherryPick", "UserRevert", "UserCommitFiles"}

\* the branch_update fields of the responses of call c that are set
BranchUpdates(c) ==
  {i \in 1..Len(call[c].out) :
     call[c].out[i].field = "branch_update" /\ call[c].out[i].val # ""}

\* C27 as stated: every call that succeeded with its ref written has a
\* non-null new value and a branch_update with a non-empty commit id
C27_Original ==
  \A c \in Calls :
    (Done(c) /\ call[c].status = "OK" /\ call[c].writes = 1) =>
      /\ call[c].newrev # NilOid
      /\ BranchUpdates(c) # {}

\* C27: a call of an operation with a branch_update in its response that
\* wrote its ref and succeeded carries exactly one branch_update, in its last
\* response, whose commit id is the non-null new value it wrote; a
\* branch_update that is set always belongs to such a call; and no call
\* wrote a ref with old value and new value both null.
C27_BranchUpdateResult ==
  \A c \in Calls :
    /\ (Done(c) /\ call[c].status = "OK" /\ call[c].writes = 1
          /\ call[c].op \in BranchUpdateOps) =>
         /\ BranchUpdates(c) = {Len(call[c].out)}
         /\ LastOut(c).val = call[c].newrev
         /\ call[c].newrev # NilOid
    /\ BranchUpdates(c) # {} =>
         /\ call[c].op \in BranchUpdateOps
         /\ call[c].writes = 1 /\ call[c].wrote = call[c].newrev
         /\ call[c].newrev # NilOid
    /\ call[c].writes > 0 => ~(call[c].oldrev = NilOid /\ call[c].newrev = NilOid)

\* a revert that went through and reports the commit it wrote
C27_Witness ==
  \E c \in Calls :
    /\ Done(c) /\ call[c].op = "UserRevert" /\ call[c].writes = 1
    /\ LastOut(c) = [field |-> "branch_update", val |-> call[c].newrev]
    /\ refs[BranchRef] = call[c].newrev

\* the listing and the HEAD reference of the last FindDefaultBranchName
LastListing == goCall.arg[1]
LastHead == goCall.arg[2]

ResolvingRpcs == ReadRpcs \cup {"FindDefaultBranchName", "PostUploadPack", "UserSquash"}

\* the last call got as far as resolving its repository: nothing else in the
\* request was refused first and the ruby server, where one is needed, is there
ReachedResolution ==
  /\ goCall.rpc \in ResolvingRpcs
  /\ goCall.rpc = "PostUploadPack" => goCall.arg[1] = NilData
  /\ goCall.rpc = "UserSquash" => (goCall.arg[1].empty = {} /\ goCall.up)

\* C29: every rpc that resolves a repository classifies a failure to resolve
\* it by kind: a request without repository is InvalidArgument, whatever else
\* it holds; where the resolution is reached, a repository in an unknown
\* storage is InvalidArgument and a repository in a known storage whose path
\* holds no git repository is NotFound.
C29_ResolutionFailuresByKind ==
  /\ (goCall.rpc \in ResolvingRpcs /\ goCall.repository = NilRepository) =>
       goCall.code = "InvalidArgument"
  /\ (ReachedResolution /\ goCall.repository # NilRepository) =>
       /\ goCall.repository.storage_name \notin Storages =>
            goCall.code = "InvalidArgument"
       /\ (goCall.repository.storage_name \in Storages
           /\ goCall.repository \notin GitRepositories) => goCall.code = "NotFound"

\* FindAllTags on storage "fake" is refused as an invalid argument
C29_Witness ==
  /\ goCall.rpc = "FindAllTags"
  /\ goCall.repository = [storage_name |-> "fake", relative_path |-> "repo"]
  /\ goCall.code = "InvalidArgument"

SentFields(c) == [i \in DOMAIN call[c].out |-> call[c].out[i].field]

OutcomeOps ==
  {"UserCherryPick", "UserRevert", "UserRebase", "UserCreateTag", "UserCommitFiles"}
Rescued(op) ==
  CASE op \in {"UserCherryPick", "UserRevert"} ->
         {"CreateTreeError", "CommitError", "PreReceiveError"}
    [] op = "UserRebase" -> {"PreReceiveError", "GitError"}
    [] op = "UserCreateTag" -> {"TagExistsError", "PreReceiveError"}
    [] op = "UserCommitFiles" -> {"IndexError", "PreReceiveError"}
    [] OTHER -> {}
ErrorField(e) ==
  CASE e = "CreateTreeError" -> "create_tree_error"
    [] e = "CommitError" -> "commit_error"
    [] e = "PreReceiveError" -> "pre_receive_error"
    [] e = "GitError" -> "git_error"
    [] e = "IndexError" -> "index_error"
    [] e = "TagExistsError" -> "exists"
    [] OTHER -> ""
ErrorFields == {"create_tree_error", "commit_error", "pre_receive_error", "git_error",
                "index_error", "exists"}

\* C32: a finished UserCherryPick, UserRevert, UserRebase, UserCreateTag or
\* UserCommitFiles sends at most one response, with one outcome field; an
\* error category the handler rescues always ends the call OK with the
\* field of that category, an error field in a response always comes from
\* its own category, and a result field is never sent for an error.
C32_OutcomeMappingOneToOne ==
  \A c \in Calls : (call[c].op \in OutcomeOps /\ call[c].pc = "done") =>
    LET rec == call[c] IN
    /\ Len(rec.out) <= 1
    /\ rec.raised \in Rescued(rec.op) =>
         /\ rec.status = "OK"
         /\ Len(rec.out) = 1
         /\ rec.out[1].field = ErrorField(rec.raised)
    /\ (Len(rec.out) = 1 /\ rec.out[1].field \in ErrorFields) =>
         /\ rec.raised \in Rescued(rec.op)
         /\ ErrorField(rec.raised) = rec.out[1].field
    /\ (Len(rec.out) = 1 /\ rec.out[1].field \notin ErrorFields) =>
         /\ rec.raised = ""
         /\ rec.out[1].field \in {"branch_update", "tag", "rebase_sha", ""}

\* a cherry-pick that failed to commit: commit_error, and nothing else
C32_Witness ==
  \E c \in Calls :
    /\ call[c].op = "UserCherryPick" /\ call[c].pc = "done"
    /\ call[c].raised = "CommitError"
    /\ call[c].status = "OK"
    /\ Len(call[c].out) = 1 /\ call[c].out[1].field = "commit_error"

\* the reference error, if any, rugged raised for the last CreateBranch
LastReferenceError ==
  RuggedBranchesCreate([n \in BranchNames |-> Lookup(rsp.before, n)], rsp.name,
                       IF rsp.start_point = "" THEN "HEAD" ELSE rsp.start_point)

\* C33: a CreateBranch that met a reference error answers with a response,
\* never a failed call, whose status is ERR_INVALID when the error says the
\* ref name is not valid, ERR_EXISTS when it says a reference with that name
\* already exists and ERR_INVALID_START_POINT otherwise (an empty
\* start_point standing for HEAD); the response has no branch and no head
\* has changed.
C33_ReferenceErrorsAreStatuses ==
  (Created /\ LastReferenceError.class = "ReferenceError") =>
    /\ rsp.grpc = "OK"
    /\ rsp.status =
         IF LastReferenceError.text = "is not valid" THEN "ERR_INVALID"
         ELSE IF LastReferenceError.text = "a reference with that name already exists"
         THEN "ERR_EXISTS"
         ELSE "ERR_INVALID_START_POINT"
    /\ rsp.branch = <<>>
    /\ rsp.target_commit = NilOid
    /\ heads = rsp.before

\* the stream holds a content chunk that came before any action header
OrphanChunk ==
  \E i \in 2..Len(requests) :
    /\ requests[i].kind = "content"
    /\ \A j \in 2..(i - 1) : requests[j].kind # "action_header"

\* C35: once a content chunk has arrived in a UserCommitFiles stream before
\* any action header, the call has failed: the chunk is in no action, no
\* plan went to the engine, no hook ran and the branch ref is what it was.
C35_ChunkBeforeHeaderFails ==
  OrphanChunk =>
    /\ cfpc = "failed"
    /\ actions = <<>>
    /\ multiAction = <<>>
    /\ call[Solo].pc = "idle"
    /\ refs[BranchRef] = BaseOid

\* a stream of a header and then a chunk, with no action declared
C35_Witness ==
  /\ Len(requests) = 2
  /\ requests[1].kind = "header"
  /\ requests[2].kind = "content"
  /\ cfpc = "failed"

\* a 'deepen' message among the first n pieces of the request data
DeepenAmong(n) == \E i \in 1..n : pack.body[i] = "deepen"

\* the outcome of a finished PostUploadPack, given whether its data counts
\* as holding a 'deepen' message
UploadPackOutcome(deepen) ==
  /\ (pack.pc = "returned" /\ pack.data # NilData) =>
       /\ pack.code = "InvalidArgument"
       /\ ~pack.started /\ pack.scan = "none"
       /\ pack.deepenCount = pack.countBefore
  /\ (pack.pc = "returned" /\ pack.started /\ pack.wait # "ok") =>
       IF pack.wait = "exit status" /\ deepen
       THEN pack.code = "OK" /\ pack.deepenCount = pack.countBefore + 1
       ELSE pack.code = "Unavailable" /\ pack.deepenCount = pack.countBefore

\* C34 as stated: the non-zero exit is a success exactly when the request
\* data held a 'deepen' message
C34_Original == UploadPackOutcome(DeepenAmong(Len(pack.body)))

\* C34: PostUploadPack returns no error for a non-zero exit status of
\* git-upload-pack, and adds one to the deepen counter, exactly when the
\* part of the request data the command had taken from its stdin held a
\* 'deepen' message; a non-zero exit without it, or a wait failure that is
\* no exit status, returns Unavailable and leaves the counter; a first
\* message with Data is refused with InvalidArgument before the goroutine
\* and the command are started.
C34_DeepenExitIsSuccess == UploadPackOutcome(DeepenAmong(pack.fed))

\* a request with a 'deepen' piece, read by the command, which then exits
\* non-zero: no error, and the counter went up by one
C34_Witness ==
  /\ pack.pc = "returned" /\ pack.wait = "exit status"
  /\ pack.body = <<"want", "deepen">> /\ pack.fed = 2
  /\ pack.code = "OK"
  /\ pack.deepenCount = pack.countBefore + 1

\* C36: PostUploadPack neither deadlocks nor leaves its goroutine behind:
\* the handler waits on deepenCh only with the pipe writer closed; a handler
\* that has returned after starting the goroutine has closed the pipe
\* writer; the goroutine's send finds the channel empty, so it never blocks,
\* read or not; and once the goroutine runs, the handler returns and the
\* goroutine ends.
C36_NoDeadlockNoLeak ==
  /\ [](pack.pc = "recvDeepen" => pack.pwClosed)
  /\ []((pack.pc = "returned" /\ pack.scan # "none") => pack.pwClosed)
  /\ [](pack.scan = "send" => pack.deepenCh = <<>>)
  /\ [](Len(pack.deepenCh) <= 1)
  /\ (pack.scan = "scanning") ~> (pack.pc = "returned" /\ pack.scan = "done")

\* the wait failed without an exit status: the handler has returned without
\* reading the channel, and the goroutine has sent its value and ended
C36_Witness ==
  /\ pack.pc = "returned" /\ pack.wait = "no exit status"
  /\ pack.scan = "done"
  /\ Len(pack.deepenCh) = 1

\* the connection handlers that have been started and have not returned
LiveHandlers == {k \in Conns : tcp.conn[k].pc \in {"select", "read", "write"}}

C38_StopReturns ==
  (tcp.stop = "waiting" /\ tcp.serve \in {"select", "accept", "returned"})
     ~> (tcp.stop = "returned" \/ ~Alive)

\* Stop has returned although a client stayed connected without sending
C38_Witness ==
  /\ tcp.stop = "returned"
  /\ \E k \in Conns :
       /\ tcp.conn[k].link = "up" /\ tcp.conn[k].sent = 0
       /\ tcp.conn[k].pc = "returned"

IsPrefix(s, t) == Len(s) <= Len(t) /\ s = SubSeq(t, 1, Len(s))

\* the whole lines among the first n bytes of s
WholeLines(s, n) ==
  LET ends == {i \in 1..n : s[i] = Newline}
  IN IF ends = {} THEN <<>>
     ELSE SubSeq(s, 1, CHOOSE i \in ends : \A j \in ends : j <= i)

\* C39: on an open connection of a service that is not stopped, what has
\* been written back is a prefix of what the client sent, and once the
\* handler has taken every byte that arrived and waits for more, every whole
\* line the client sent has been written back, once, unchanged and in order.
C39_EveryLineEchoedOnce ==
  \A k \in Conns :
    LET c == tcp.conn[k] IN
    (c.link = "up" /\ c.pc \in {"select", "read", "write"}) =>
      /\ IsPrefix(c.echoed, c.script)
      /\ (c.pc = "read" /\ c.rcv = <<>>) =>
           c.echoed = WholeLines(c.script, c.sent)

\* one of the three events has happened: TERM was received, the parent is
\* not the PPID the process was started with, the run loop came back
ShutdownEvent == rb.term \/ rb.ppid # "original" \/ rb.own

====
